---- MODULE Spec2Model ----
(***************************************************************************)
(* Hash-time-locked escrow engine (CosmWasm contract): packed timelock     *)
(* schedule, escrow records, the factory's creation path and the terminal  *)
(* operations withdraw / cancel / public withdraw / public cancel / rescue.*)
(* Every action is one contract call, executed atomically; a call that     *)
(* returns an error leaves the storage as it was (the host discards the    *)
(* writes of a failed execute).                                            *)
(***************************************************************************)
EXTENDS Integers, Sequences, FiniteSets, TLC

\* ------------------------------------------------------------------------
\* Bounds of the model
\* ------------------------------------------------------------------------
\* number of escrows that may be created in one behaviour
MaxEscrows == 2
\* index of the last block time the host supplies
MaxTick == 5
\* index of the last block time at which the factory is sent a creation
MaxCreateTick == 0
\* the largest stage offset (hours) of a schedule built alone
MaxOffset == 3
\* the most calls between their load and their save at one time, where the
\* two halves of a terminal operation are run as separate steps
MaxPending == 2

\* ------------------------------------------------------------------------
\* Program constants
\* ------------------------------------------------------------------------
\* seconds per hour, the unit of a stage offset
SecondsPerHour == 3600
\* FactoryConfig defaults
CreationFee == 10

\* ------------------------------------------------------------------------
\* 64-bit words, kept as eight little-endian bytes
\* ------------------------------------------------------------------------
ZeroWord == <<0, 0, 0, 0, 0, 0, 0, 0>>

\* x as u64, for a value that fits 32 bits (x as u32 keeps the low 4 bytes)
U32AsU64(x) ==
    << x % 256, (x \div 256) % 256, (x \div 65536) % 256,
       (x \div 16777216) % 256, 0, 0, 0, 0 >>

\* x as u64, for a u8
U8AsU64(x) == << x % 256, 0, 0, 0, 0, 0, 0, 0 >>

\* w << bits, bits a multiple of 8
Shl(w, bits) ==
    LET F(i) == IF i - (bits \div 8) >= 1 THEN w[i - (bits \div 8)] ELSE 0
    IN  << F(1), F(2), F(3), F(4), F(5), F(6), F(7), F(8) >>

\* w >> bits, bits a multiple of 8
Shr(w, bits) ==
    LET F(i) == IF i + (bits \div 8) <= 8 THEN w[i + (bits \div 8)] ELSE 0
    IN  << F(1), F(2), F(3), F(4), F(5), F(6), F(7), F(8) >>

RECURSIVE BitOr(_, _)
BitOr(a, b) ==
    IF a = 0 THEN b
    ELSE IF b = 0 THEN a
    ELSE (IF a % 2 = 1 \/ b % 2 = 1 THEN 1 ELSE 0) + 2 * BitOr(a \div 2, b \div 2)

\* v | w
WordOr(v, w) ==
    LET F(i) == BitOr(v[i], w[i])
    IN  << F(1), F(2), F(3), F(4), F(5), F(6), F(7), F(8) >>

\* (w & 0xFF) as u8
AndTimelockMask(w) == w[1]

\* (w & 0xFFFFFFFF) as u32
AndDeployedAtMask(w) == w[1] + 256 * w[2] + 65536 * w[3] + 16777216 * w[4]

DEPLOYED_AT_OFFSET == 32
TIMELOCK_SHIFT == 8

\* ------------------------------------------------------------------------
\* TimelockStage, PackedTimelocks
\* ------------------------------------------------------------------------
SrcStages == <<"SrcWithdrawal", "SrcPublicWithdrawal", "SrcCancellation",
               "SrcPublicCancellation">>
DstStages == <<"DstWithdrawal", "DstPublicWithdrawal", "DstCancellation">>
AllStages == SrcStages \o DstStages

\* PackedTimelocks::new with two source offsets shifted to the same byte
PackedTimelocks_new_overlapping(deployed_at, src_withdrawal, src_public_withdrawal, src_cancellation, src_public_cancellation, dst_withdrawal, dst_public_withdrawal, dst_cancellation) ==
    LET s0 == U32AsU64(deployed_at)
        s1 == WordOr(s0, Shl(U8AsU64(src_withdrawal), DEPLOYED_AT_OFFSET))
        s2 == WordOr(s1, Shl(U8AsU64(src_public_withdrawal),
                             DEPLOYED_AT_OFFSET + TIMELOCK_SHIFT * 2))
        s3 == WordOr(s2, Shl(U8AsU64(src_cancellation),
                             DEPLOYED_AT_OFFSET + TIMELOCK_SHIFT * 2))
        s4 == WordOr(s3, Shl(U8AsU64(src_public_cancellation),
                             DEPLOYED_AT_OFFSET + TIMELOCK_SHIFT * 3))
        d1 == WordOr(ZeroWord, U8AsU64(dst_withdrawal))
        d2 == WordOr(d1, Shl(U8AsU64(dst_public_withdrawal), TIMELOCK_SHIFT))
        d3 == WordOr(d2, Shl(U8AsU64(dst_cancellation), TIMELOCK_SHIFT * 2))
    IN  [source_data |-> s4, destination_data |-> d3]

PackedTimelocks_new(deployed_at, src_withdrawal, src_public_withdrawal, src_cancellation, src_public_cancellation, dst_withdrawal, dst_public_withdrawal, dst_cancellation) ==
    LET s0 == U32AsU64(deployed_at)
        s1 == WordOr(s0, Shl(U8AsU64(src_withdrawal), DEPLOYED_AT_OFFSET))
        s2 == WordOr(s1, Shl(U8AsU64(src_public_withdrawal),
                             DEPLOYED_AT_OFFSET + TIMELOCK_SHIFT))
        s3 == WordOr(s2, Shl(U8AsU64(src_cancellation),
                             DEPLOYED_AT_OFFSET + TIMELOCK_SHIFT * 2))
        s4 == WordOr(s3, Shl(U8AsU64(src_public_cancellation),
                             DEPLOYED_AT_OFFSET + TIMELOCK_SHIFT * 3))
        d1 == WordOr(ZeroWord, U8AsU64(dst_withdrawal))
        d2 == WordOr(d1, Shl(U8AsU64(dst_public_withdrawal), TIMELOCK_SHIFT))
        d3 == WordOr(d2, Shl(U8AsU64(dst_cancellation), TIMELOCK_SHIFT * 2))
    IN  [source_data |-> s4, destination_data |-> d3]

deployed_at(t) == AndDeployedAtMask(t.source_data)

get(t, stage) ==
    CASE stage = "SrcWithdrawal" ->
            AndTimelockMask(Shr(t.source_data, DEPLOYED_AT_OFFSET))
      [] stage = "SrcPublicWithdrawal" ->
            AndTimelockMask(Shr(t.source_data, DEPLOYED_AT_OFFSET + TIMELOCK_SHIFT))
      [] stage = "SrcCancellation" ->
            AndTimelockMask(Shr(t.source_data, DEPLOYED_AT_OFFSET + TIMELOCK_SHIFT * 2))
      [] stage = "SrcPublicCancellation" ->
            AndTimelockMask(Shr(t.source_data, DEPLOYED_AT_OFFSET + TIMELOCK_SHIFT * 3))
      [] stage = "DstWithdrawal" ->
            AndTimelockMask(t.destination_data)
      [] stage = "DstPublicWithdrawal" ->
            AndTimelockMask(Shr(t.destination_data, TIMELOCK_SHIFT))
      [] stage = "DstCancellation" ->
            AndTimelockMask(Shr(t.destination_data, TIMELOCK_SHIFT * 2))

\* get_stage_time without the hour-to-second conversion
get_stage_time_unscaled(t, stage) == deployed_at(t) + get(t, stage)

get_stage_time(t, stage) == deployed_at(t) + get(t, stage) * SecondsPerHour

\* is_within_stage true only after the stage time (has_stage_passed)
is_within_stage_strict(t, current_time, stage) == current_time > get_stage_time(t, stage)

\* is_within_stage as a window of one hour opened at the stage time
is_within_stage_window(t, current_time, stage) ==
    /\ current_time >= get_stage_time(t, stage)
    /\ current_time < get_stage_time(t, stage) + SecondsPerHour

is_within_stage(t, current_time, stage) == current_time >= get_stage_time(t, stage)

\* get_current_stage returning the started stage that comes last in the order
get_current_stage_latest(t, current_time) ==
    LET found == { i \in 1..Len(AllStages) :
                       is_within_stage(t, current_time, AllStages[i]) }
    IN  IF found = {} THEN << >>
        ELSE << AllStages[CHOOSE i \in found : \A j \in found : j <= i] >>

\* stages.into_iter().find(..): << >> for None, << stage >> for Some(stage)
get_current_stage(t, current_time) ==
    LET found == { i \in 1..Len(AllStages) :
                       is_within_stage(t, current_time, AllStages[i]) }
    IN  IF found = {} THEN << >>
        ELSE << AllStages[CHOOSE i \in found : \A j \in found : i <= j] >>

\* rescue_start counted from time zero, not from the deployment
rescue_start_from_zero(t, rescue_delay) == rescue_delay

rescue_start(t, rescue_delay) == deployed_at(t) + rescue_delay

\* PackedTimelocks::validate accepting equal adjacent offsets
PackedTimelocks_validate_non_strict(t) ==
    /\ deployed_at(t) # 0
    /\ ~ (get(t, "SrcPublicWithdrawal") < get(t, "SrcWithdrawal"))
    /\ ~ (get(t, "SrcCancellation") < get(t, "SrcPublicWithdrawal"))
    /\ ~ (get(t, "SrcPublicCancellation") < get(t, "SrcCancellation"))
    /\ ~ (get(t, "DstPublicWithdrawal") < get(t, "DstWithdrawal"))
    /\ ~ (get(t, "DstCancellation") < get(t, "DstPublicWithdrawal"))

\* PackedTimelocks::validate without the destination progression
PackedTimelocks_validate_source_only(t) ==
    /\ deployed_at(t) # 0
    /\ ~ (get(t, "SrcPublicWithdrawal") <= get(t, "SrcWithdrawal"))
    /\ ~ (get(t, "SrcCancellation") <= get(t, "SrcPublicWithdrawal"))
    /\ ~ (get(t, "SrcPublicCancellation") <= get(t, "SrcCancellation"))

\* PackedTimelocks::validate: TRUE for Ok
PackedTimelocks_validate(t) ==
    /\ deployed_at(t) # 0
    /\ ~ (get(t, "SrcPublicWithdrawal") <= get(t, "SrcWithdrawal"))
    /\ ~ (get(t, "SrcCancellation") <= get(t, "SrcPublicWithdrawal"))
    /\ ~ (get(t, "SrcPublicCancellation") <= get(t, "SrcCancellation"))
    /\ ~ (get(t, "DstPublicWithdrawal") <= get(t, "DstWithdrawal"))
    /\ ~ (get(t, "DstCancellation") <= get(t, "DstPublicWithdrawal"))

\* ------------------------------------------------------------------------
\* EscrowType
\* ------------------------------------------------------------------------
is_source(escrow_type) == escrow_type = "Source"
is_destination(escrow_type) == escrow_type = "Destination"

get_withdrawal_stage(escrow_type) ==
    IF escrow_type = "Source" THEN "SrcWithdrawal" ELSE "DstWithdrawal"

get_cancellation_stage(escrow_type) ==
    IF escrow_type = "Source" THEN "SrcCancellation" ELSE "DstCancellation"

get_public_withdrawal_stage(escrow_type) ==
    IF escrow_type = "Source" THEN "SrcPublicWithdrawal" ELSE "DstPublicWithdrawal"

\* Option<TimelockStage> as a sequence of length 0 or 1
get_public_cancellation_stage(escrow_type) ==
    IF escrow_type = "Source" THEN <<"SrcPublicCancellation">> ELSE <<>>

\* ------------------------------------------------------------------------
\* Principals, secrets and digests
\* ------------------------------------------------------------------------
ContractAddr == "contract0"

\* Config written by instantiate
config ==
    [owner |-> "owner", access_token |-> "access_token", factory |-> "factory"]

\* callers of the terminal operations: the taker and the access-token holder
Callers == {"taker", "access_token"}

\* callers of Cancel: also the maker, whom a source cancellation refunds
CancelCallers == Callers \cup {"maker"}

Secrets == {"secret_one", "secret_two"}

\* marks a call that carries no secret
NoSecret == "<no secret>"

\* format!("{:x}", Sha256::digest(secret.as_bytes())) on the model's secrets
Sha256Hex(secret) ==
    CASE secret = "secret_one" ->
            "6fe92d51b626e185083507a7ca855d6108bd62a2035eb9a5af1eba2e67d56c95"
      [] secret = "secret_two" ->
            "233532c7237897bca99c22e677e9e537016139652e693db3851df2eb10c1b77d"
      [] secret = "" ->
            "e3b0c44298fc1c149afbf4c8996fb92427ae41e4649b934ca495991b7852b855"

\* the rescue delays instantiate may be given
RescueDelays == {0, 3600}

\* ------------------------------------------------------------------------
\* Block times supplied by the host: 1000, 4599, then 4600 + k hours
\* ------------------------------------------------------------------------
TimeAt(i) ==
    IF i = 0 THEN 1000
    ELSE IF i = 1 THEN 4599
    ELSE 1000 + SecondsPerHour * (i - 1)

TimePoints == {TimeAt(i) : i \in 0..MaxTick}

\* ------------------------------------------------------------------------
\* Creation requests the factory is sent
\* ------------------------------------------------------------------------
BaseParams ==
    [order_hash |-> "order_1",
     hashlock |-> Sha256Hex("secret_one"),
     maker |-> "maker",
     taker |-> "taker",
     token |-> "",
     amount |-> 1000,
     safety_deposit |-> 100,
     timelocks |-> PackedTimelocks_new(1000, 1, 2, 3, 4, 1, 2, 3),
     escrow_type |-> "Source",
     dst_chain_id |-> "cosmoshub-4",
     dst_token |-> "dst_token_address",
     dst_amount |-> 1000]

CreationParams ==
    { BaseParams,
      [BaseParams EXCEPT !.order_hash = "order_2", !.escrow_type = "Destination",
                         !.token = "token_address"],
      [BaseParams EXCEPT !.amount = 0],
      [BaseParams EXCEPT !.timelocks = PackedTimelocks_new(1000, 2, 1, 3, 4, 1, 2, 3)],
      [BaseParams EXCEPT !.order_hash = ""],
      [BaseParams EXCEPT !.hashlock = ""],
      [BaseParams EXCEPT !.safety_deposit = 0],
      [BaseParams EXCEPT !.timelocks = PackedTimelocks_new(1000, 1, 2, 3, 4, 1, 2, 2)] }

Salts == {"salt_a"}

\* CreateEscrow calls <<sender, params, uatom sent>>: the owner's, with the
\* creation fee, for every request; and for the first request also the
\* maker's, the configured factory's with amount + safety deposit, and the
\* owner's with less than the fee
CreateCalls ==
    { <<"owner", params, 10>> : params \in CreationParams }
    \cup { <<"maker", BaseParams, 10>>, <<"factory", BaseParams, 1100>>,
           <<"owner", BaseParams, 1>> }

\* HandlePostInteraction calls <<sender, message, uatom sent>>; the message
\* has the request's fields without escrow_type
PostInteractionCalls ==
    { <<"factory", BaseParams, 1100>>, <<"maker", BaseParams, 10>>,
      <<"maker", [BaseParams EXCEPT !.safety_deposit = 0], 1000>> }

\* CancelCreationRequest calls <<sender, order_hash, hashlock>>
CancelCalls ==
    { <<"owner", "order_1", Sha256Hex("secret_one")>>,
      <<"maker", "order_1", Sha256Hex("secret_one")>>,
      <<"owner", "order_3", Sha256Hex("secret_one")>> }

\* ------------------------------------------------------------------------
\* State
\* ------------------------------------------------------------------------
VARIABLES
    escrows,            \* ESCROWS: escrow id -> EscrowState
    escrow_counter,     \* ESCROW_COUNTER
    escrow_by_hash,     \* ESCROW_BY_HASH: immutables hash -> escrow id
    escrow_addresses,   \* ESCROW_ADDRESSES: the computed addresses in use
    creation_requests,  \* ESCROW_CREATION_REQUESTS: "order_hash:hashlock" -> request
    rescue_delay,       \* Config.rescue_delay
    now,                \* env.block.time.seconds() of the current block
    last,               \* the call executed by the last step and its response
    successes,          \* history: successful terminal operations per escrow id
    probe,              \* arguments and result of a function of state.rs applied alone
    pending             \* calls that have loaded an escrow and not yet saved it

vars == << escrows, escrow_counter, escrow_by_hash, escrow_addresses,
           creation_requests, rescue_delay, now, last, successes, probe, pending >>

storage == << escrows, escrow_counter, escrow_by_hash, escrow_addresses,
              creation_requests, rescue_delay >>

EscrowIds == 1..MaxEscrows

\* a call that is not a creation carries no creation request
NoRequest == << >>

NoCall ==
    [op |-> "none", sender |-> "", escrow_id |-> 0, secret |-> NoSecret,
     request |-> NoRequest, result |-> "none", messages |-> <<>>]

Call(op, sender, escrow_id, secret) ==
    [op |-> op, sender |-> sender, escrow_id |-> escrow_id, secret |-> secret,
     request |-> NoRequest]

\* a call of the factory: the creation parameters, the salt and the uatom sent
FactoryCall(op, sender, params, salt, funds) ==
    [op |-> op, sender |-> sender, escrow_id |-> 0, secret |-> NoSecret,
     request |-> << [params |-> params, salt |-> salt, funds |-> funds] >>]

\* Err(e): the response carries the error and no message; nothing is written
Err(call, e) ==
    /\ last' = [op |-> call.op, sender |-> call.sender, escrow_id |-> call.escrow_id,
                secret |-> call.secret, request |-> call.request,
                result |-> e, messages |-> <<>>]
    /\ UNCHANGED << storage, now, successes, probe, pending >>

\* BankMsg::Send / Cw20ExecuteMsg::Transfer of the main balance
BalanceMessages(escrow_state, recipient) ==
    IF escrow_state.balance > 0
    THEN IF escrow_state.escrow_info.immutables.token = ""
         THEN << [kind |-> "Bank", contract_addr |-> "", recipient |-> recipient,
                  amount |-> escrow_state.balance] >>
         ELSE << [kind |-> "Cw20Transfer",
                  contract_addr |-> escrow_state.escrow_info.immutables.token,
                  recipient |-> recipient, amount |-> escrow_state.balance] >>
    ELSE << >>

\* the safety deposit sent before it is known whom to pay: no message
DepositMessages_dropped(escrow_state, recipient) == << >>

\* BankMsg::Send of the safety deposit
DepositMessages(escrow_state, recipient) ==
    IF escrow_state.native_balance > 0
    THEN << [kind |-> "Bank", contract_addr |-> "", recipient |-> recipient,
             amount |-> escrow_state.native_balance] >>
    ELSE << >>

\* Deactivate that also zeroes the balances it has paid out
Deactivate_zeroing(call, messages) ==
    /\ escrows' = [escrows EXCEPT ![call.escrow_id].escrow_info.is_active = FALSE,
                                  ![call.escrow_id].balance = 0,
                                  ![call.escrow_id].native_balance = 0]
    /\ last' = [op |-> call.op, sender |-> call.sender, escrow_id |-> call.escrow_id,
                secret |-> call.secret, request |-> call.request,
                result |-> "Ok", messages |-> messages]
    /\ successes' = [successes EXCEPT ![call.escrow_id] = @ + 1]
    /\ UNCHANGED << escrow_counter, escrow_by_hash, escrow_addresses,
                    creation_requests, rescue_delay, now, probe, pending >>

\* is_active = false; ESCROWS.save; Ok(Response::new().add_messages(messages))
Deactivate(call, messages) ==
    /\ escrows' = [escrows EXCEPT ![call.escrow_id].escrow_info.is_active = FALSE]
    /\ last' = [op |-> call.op, sender |-> call.sender, escrow_id |-> call.escrow_id,
                secret |-> call.secret, request |-> call.request,
                result |-> "Ok", messages |-> messages]
    /\ successes' = [successes EXCEPT ![call.escrow_id] = @ + 1]
    /\ UNCHANGED << escrow_counter, escrow_by_hash, escrow_addresses,
                    creation_requests, rescue_delay, now, probe, pending >>

\* no function is applied alone while the contract runs
NoProbe == [fn |-> "none"]

\* the host runs one call at a time: no call is ever between its load and its save
NoPending == << >>

Init ==
    /\ escrows = << >>
    /\ escrow_counter = 0
    /\ escrow_by_hash = << >>
    /\ escrow_addresses = {}
    /\ creation_requests = << >>
    /\ rescue_delay \in RescueDelays
    /\ now = TimeAt(0)
    /\ last = NoCall
    /\ successes = [id \in EscrowIds |-> 0]
    /\ probe = NoProbe
    /\ pending = NoPending

\* the host moves to a later block
Tick ==
    /\ \E t \in TimePoints : t > now /\ now' = t
    /\ last' = NoCall
    /\ UNCHANGED << storage, successes, probe, pending >>

\* ------------------------------------------------------------------------
\* Terminal operations (execute.rs)
\* ------------------------------------------------------------------------
\* execute_withdraw_src without the secret validation
execute_withdraw_src_any_secret(sender, escrow_id, secret) ==
    LET call == Call("WithdrawSrc", sender, escrow_id, secret) IN
    IF escrow_id \notin DOMAIN escrows THEN Err(call, "EscrowNotFound")
    ELSE
    LET escrow_state == escrows[escrow_id]
        immutables == escrow_state.escrow_info.immutables
        stage == get_withdrawal_stage(escrow_state.escrow_info.escrow_type)
    IN
    IF ~ is_source(escrow_state.escrow_info.escrow_type)
        THEN Err(call, "InvalidImmutables")
    ELSE IF sender # immutables.taker THEN Err(call, "OnlyTaker")
    ELSE IF ~ escrow_state.escrow_info.is_active THEN Err(call, "EscrowNotActive")
    ELSE IF ~ is_within_stage(immutables.timelocks, now, stage)
        THEN Err(call, "TimelockNotExpired")
    ELSE Deactivate(call, BalanceMessages(escrow_state, immutables.taker)
                          \o DepositMessages(escrow_state, sender))

\* execute_withdraw_src checking the timelock before the secret
execute_withdraw_src_timelock_first(sender, escrow_id, secret) ==
    LET call == Call("WithdrawSrc", sender, escrow_id, secret) IN
    IF escrow_id \notin DOMAIN escrows THEN Err(call, "EscrowNotFound")
    ELSE
    LET escrow_state == escrows[escrow_id]
        immutables == escrow_state.escrow_info.immutables
        stage == get_withdrawal_stage(escrow_state.escrow_info.escrow_type)
    IN
    IF ~ is_source(escrow_state.escrow_info.escrow_type)
        THEN Err(call, "InvalidImmutables")
    ELSE IF sender # immutables.taker THEN Err(call, "OnlyTaker")
    ELSE IF ~ escrow_state.escrow_info.is_active THEN Err(call, "EscrowNotActive")
    ELSE IF ~ is_within_stage(immutables.timelocks, now, stage)
        THEN Err(call, "TimelockNotExpired")
    ELSE IF Sha256Hex(secret) # immutables.hashlock THEN Err(call, "InvalidSecret")
    ELSE Deactivate(call, BalanceMessages(escrow_state, immutables.taker)
                          \o DepositMessages(escrow_state, sender))

\* execute_withdraw_src closed once the cancellation stage has started
execute_withdraw_src_expiring(sender, escrow_id, secret) ==
    LET call == Call("WithdrawSrc", sender, escrow_id, secret) IN
    IF escrow_id \notin DOMAIN escrows THEN Err(call, "EscrowNotFound")
    ELSE
    LET escrow_state == escrows[escrow_id]
        immutables == escrow_state.escrow_info.immutables
        stage == get_withdrawal_stage(escrow_state.escrow_info.escrow_type)
    IN
    IF ~ is_source(escrow_state.escrow_info.escrow_type)
        THEN Err(call, "InvalidImmutables")
    ELSE IF sender # immutables.taker THEN Err(call, "OnlyTaker")
    ELSE IF ~ escrow_state.escrow_info.is_active THEN Err(call, "EscrowNotActive")
    ELSE IF Sha256Hex(secret) # immutables.hashlock THEN Err(call, "InvalidSecret")
    ELSE IF ~ is_within_stage(immutables.timelocks, now, stage)
        THEN Err(call, "TimelockNotExpired")
    ELSE IF is_within_stage(immutables.timelocks, now, "SrcCancellation")
        THEN Err(call, "TimelockNotExpired")
    ELSE Deactivate(call, BalanceMessages(escrow_state, immutables.taker)
                          \o DepositMessages(escrow_state, sender))

execute_withdraw_src(sender, escrow_id, secret) ==
    LET call == Call("WithdrawSrc", sender, escrow_id, secret) IN
    IF escrow_id \notin DOMAIN escrows THEN Err(call, "EscrowNotFound")
    ELSE
    LET escrow_state == escrows[escrow_id]
        immutables == escrow_state.escrow_info.immutables
        stage == get_withdrawal_stage(escrow_state.escrow_info.escrow_type)
    IN
    IF ~ is_source(escrow_state.escrow_info.escrow_type)
        THEN Err(call, "InvalidImmutables")
    ELSE IF sender # immutables.taker THEN Err(call, "OnlyTaker")
    ELSE IF ~ escrow_state.escrow_info.is_active THEN Err(call, "EscrowNotActive")
    ELSE IF Sha256Hex(secret) # immutables.hashlock THEN Err(call, "InvalidSecret")
    ELSE IF ~ is_within_stage(immutables.timelocks, now, stage)
        THEN Err(call, "TimelockNotExpired")
    ELSE Deactivate(call, BalanceMessages(escrow_state, immutables.taker)
                          \o DepositMessages(escrow_state, sender))

\* execute_withdraw_dst paying the taker, as the source side does
execute_withdraw_dst_to_taker(sender, escrow_id, secret) ==
    LET call == Call("WithdrawDst", sender, escrow_id, secret) IN
    IF escrow_id \notin DOMAIN escrows THEN Err(call, "EscrowNotFound")
    ELSE
    LET escrow_state == escrows[escrow_id]
        immutables == escrow_state.escrow_info.immutables
        stage == get_withdrawal_stage(escrow_state.escrow_info.escrow_type)
    IN
    IF ~ is_destination(escrow_state.escrow_info.escrow_type)
        THEN Err(call, "InvalidImmutables")
    ELSE IF sender # immutables.taker THEN Err(call, "OnlyTaker")
    ELSE IF ~ escrow_state.escrow_info.is_active THEN Err(call, "EscrowNotActive")
    ELSE IF Sha256Hex(secret) # immutables.hashlock THEN Err(call, "InvalidSecret")
    ELSE IF ~ is_within_stage(immutables.timelocks, now, stage)
        THEN Err(call, "TimelockNotExpired")
    ELSE Deactivate(call, BalanceMessages(escrow_state, immutables.taker)
                          \o DepositMessages(escrow_state, sender))

execute_withdraw_dst(sender, escrow_id, secret) ==
    LET call == Call("WithdrawDst", sender, escrow_id, secret) IN
    IF escrow_id \notin DOMAIN escrows THEN Err(call, "EscrowNotFound")
    ELSE
    LET escrow_state == escrows[escrow_id]
        immutables == escrow_state.escrow_info.immutables
        stage == get_withdrawal_stage(escrow_state.escrow_info.escrow_type)
    IN
    IF ~ is_destination(escrow_state.escrow_info.escrow_type)
        THEN Err(call, "InvalidImmutables")
    ELSE IF sender # immutables.taker THEN Err(call, "OnlyTaker")
    ELSE IF ~ escrow_state.escrow_info.is_active THEN Err(call, "EscrowNotActive")
    ELSE IF Sha256Hex(secret) # immutables.hashlock THEN Err(call, "InvalidSecret")
    ELSE IF ~ is_within_stage(immutables.timelocks, now, stage)
        THEN Err(call, "TimelockNotExpired")
    ELSE Deactivate(call, BalanceMessages(escrow_state, immutables.maker)
                          \o DepositMessages(escrow_state, sender))

\* execute_cancel_src without the is_active check
execute_cancel_src_unchecked(sender, escrow_id) ==
    LET call == Call("CancelSrc", sender, escrow_id, NoSecret) IN
    IF escrow_id \notin DOMAIN escrows THEN Err(call, "EscrowNotFound")
    ELSE
    LET escrow_state == escrows[escrow_id]
        immutables == escrow_state.escrow_info.immutables
        stage == get_cancellation_stage(escrow_state.escrow_info.escrow_type)
    IN
    IF ~ is_source(escrow_state.escrow_info.escrow_type)
        THEN Err(call, "InvalidImmutables")
    ELSE IF sender # immutables.taker THEN Err(call, "OnlyTaker")
    ELSE IF ~ is_within_stage(immutables.timelocks, now, stage)
        THEN Err(call, "TimelockNotExpired")
    ELSE Deactivate(call, BalanceMessages(escrow_state, immutables.maker)
                          \o DepositMessages(escrow_state, sender))

execute_cancel_src(sender, escrow_id) ==
    LET call == Call("CancelSrc", sender, escrow_id, NoSecret) IN
    IF escrow_id \notin DOMAIN escrows THEN Err(call, "EscrowNotFound")
    ELSE
    LET escrow_state == escrows[escrow_id]
        immutables == escrow_state.escrow_info.immutables
        stage == get_cancellation_stage(escrow_state.escrow_info.escrow_type)
    IN
    IF ~ is_source(escrow_state.escrow_info.escrow_type)
        THEN Err(call, "InvalidImmutables")
    ELSE IF sender # immutables.taker THEN Err(call, "OnlyTaker")
    ELSE IF ~ escrow_state.escrow_info.is_active THEN Err(call, "EscrowNotActive")
    ELSE IF ~ is_within_stage(immutables.timelocks, now, stage)
        THEN Err(call, "TimelockNotExpired")
    ELSE Deactivate(call, BalanceMessages(escrow_state, immutables.maker)
                          \o DepositMessages(escrow_state, sender))

\* execute_cancel_dst without the access check
execute_cancel_dst_any_caller(sender, escrow_id) ==
    LET call == Call("CancelDst", sender, escrow_id, NoSecret) IN
    IF escrow_id \notin DOMAIN escrows THEN Err(call, "EscrowNotFound")
    ELSE
    LET escrow_state == escrows[escrow_id]
        immutables == escrow_state.escrow_info.immutables
        stage == get_cancellation_stage(escrow_state.escrow_info.escrow_type)
    IN
    IF ~ is_destination(escrow_state.escrow_info.escrow_type)
        THEN Err(call, "InvalidImmutables")
    ELSE IF ~ escrow_state.escrow_info.is_active THEN Err(call, "EscrowNotActive")
    ELSE IF ~ is_within_stage(immutables.timelocks, now, stage)
        THEN Err(call, "TimelockNotExpired")
    ELSE Deactivate(call, BalanceMessages(escrow_state, immutables.taker)
                          \o DepositMessages(escrow_state, sender))

execute_cancel_dst(sender, escrow_id) ==
    LET call == Call("CancelDst", sender, escrow_id, NoSecret) IN
    IF escrow_id \notin DOMAIN escrows THEN Err(call, "EscrowNotFound")
    ELSE
    LET escrow_state == escrows[escrow_id]
        immutables == escrow_state.escrow_info.immutables
        stage == get_cancellation_stage(escrow_state.escrow_info.escrow_type)
    IN
    IF ~ is_destination(escrow_state.escrow_info.escrow_type)
        THEN Err(call, "InvalidImmutables")
    ELSE IF sender # immutables.taker THEN Err(call, "OnlyTaker")
    ELSE IF ~ escrow_state.escrow_info.is_active THEN Err(call, "EscrowNotActive")
    ELSE IF ~ is_within_stage(immutables.timelocks, now, stage)
        THEN Err(call, "TimelockNotExpired")
    ELSE Deactivate(call, BalanceMessages(escrow_state, immutables.taker)
                          \o DepositMessages(escrow_state, sender))

\* execute_public_withdraw_src without the escrow type check
execute_public_withdraw_src_any_type(sender, escrow_id) ==
    LET call == Call("PublicWithdrawSrc", sender, escrow_id, NoSecret) IN
    IF escrow_id \notin DOMAIN escrows THEN Err(call, "EscrowNotFound")
    ELSE
    LET escrow_state == escrows[escrow_id]
        immutables == escrow_state.escrow_info.immutables
        stage == get_public_withdrawal_stage(escrow_state.escrow_info.escrow_type)
    IN
    IF sender # config.access_token THEN Err(call, "OnlyAccessTokenHolder")
    ELSE IF ~ escrow_state.escrow_info.is_active THEN Err(call, "EscrowNotActive")
    ELSE IF ~ is_within_stage(immutables.timelocks, now, stage)
        THEN Err(call, "TimelockNotExpired")
    ELSE Deactivate(call, BalanceMessages(escrow_state, sender)
                          \o DepositMessages(escrow_state, sender))

execute_public_withdraw_src(sender, escrow_id) ==
    LET call == Call("PublicWithdrawSrc", sender, escrow_id, NoSecret) IN
    IF escrow_id \notin DOMAIN escrows THEN Err(call, "EscrowNotFound")
    ELSE
    LET escrow_state == escrows[escrow_id]
        immutables == escrow_state.escrow_info.immutables
        stage == get_public_withdrawal_stage(escrow_state.escrow_info.escrow_type)
    IN
    IF ~ is_source(escrow_state.escrow_info.escrow_type)
        THEN Err(call, "InvalidImmutables")
    ELSE IF sender # config.access_token THEN Err(call, "OnlyAccessTokenHolder")
    ELSE IF ~ escrow_state.escrow_info.is_active THEN Err(call, "EscrowNotActive")
    ELSE IF ~ is_within_stage(immutables.timelocks, now, stage)
        THEN Err(call, "TimelockNotExpired")
    ELSE Deactivate(call, BalanceMessages(escrow_state, sender)
                          \o DepositMessages(escrow_state, sender))

execute_public_withdraw_dst(sender, escrow_id) ==
    LET call == Call("PublicWithdrawDst", sender, escrow_id, NoSecret) IN
    IF escrow_id \notin DOMAIN escrows THEN Err(call, "EscrowNotFound")
    ELSE
    LET escrow_state == escrows[escrow_id]
        immutables == escrow_state.escrow_info.immutables
        stage == get_public_withdrawal_stage(escrow_state.escrow_info.escrow_type)
    IN
    IF ~ is_destination(escrow_state.escrow_info.escrow_type)
        THEN Err(call, "InvalidImmutables")
    ELSE IF sender # config.access_token THEN Err(call, "OnlyAccessTokenHolder")
    ELSE IF ~ escrow_state.escrow_info.is_active THEN Err(call, "EscrowNotActive")
    ELSE IF ~ is_within_stage(immutables.timelocks, now, stage)
        THEN Err(call, "TimelockNotExpired")
    ELSE Deactivate(call, BalanceMessages(escrow_state, sender)
                          \o DepositMessages(escrow_state, sender))

\* execute_public_cancel_src refunding the taker, as the destination
\* cancellation does
execute_public_cancel_src_to_taker(sender, escrow_id) ==
    LET call == Call("PublicCancelSrc", sender, escrow_id, NoSecret) IN
    IF escrow_id \notin DOMAIN escrows THEN Err(call, "EscrowNotFound")
    ELSE
    LET escrow_state == escrows[escrow_id]
        immutables == escrow_state.escrow_info.immutables
        stage == get_public_cancellation_stage(escrow_state.escrow_info.escrow_type)
    IN
    IF ~ is_source(escrow_state.escrow_info.escrow_type)
        THEN Err(call, "InvalidImmutables")
    ELSE IF sender # config.access_token THEN Err(call, "OnlyAccessTokenHolder")
    ELSE IF ~ escrow_state.escrow_info.is_active THEN Err(call, "EscrowNotActive")
    ELSE IF stage = << >> THEN Err(call, "InvalidImmutables")
    ELSE IF ~ is_within_stage(immutables.timelocks, now, stage[1])
        THEN Err(call, "TimelockNotExpired")
    ELSE Deactivate(call, BalanceMessages(escrow_state, immutables.taker)
                          \o DepositMessages(escrow_state, sender))

execute_public_cancel_src(sender, escrow_id) ==
    LET call == Call("PublicCancelSrc", sender, escrow_id, NoSecret) IN
    IF escrow_id \notin DOMAIN escrows THEN Err(call, "EscrowNotFound")
    ELSE
    LET escrow_state == escrows[escrow_id]
        immutables == escrow_state.escrow_info.immutables
        stage == get_public_cancellation_stage(escrow_state.escrow_info.escrow_type)
    IN
    IF ~ is_source(escrow_state.escrow_info.escrow_type)
        THEN Err(call, "InvalidImmutables")
    ELSE IF sender # config.access_token THEN Err(call, "OnlyAccessTokenHolder")
    ELSE IF ~ escrow_state.escrow_info.is_active THEN Err(call, "EscrowNotActive")
    ELSE IF stage = << >> THEN Err(call, "InvalidImmutables")
    ELSE IF ~ is_within_stage(immutables.timelocks, now, stage[1])
        THEN Err(call, "TimelockNotExpired")
    ELSE Deactivate(call, BalanceMessages(escrow_state, immutables.maker)
                          \o DepositMessages(escrow_state, sender))

\* execute_rescue without the is_active check
execute_rescue_unchecked(sender, escrow_id) ==
    LET call == Call("Rescue", sender, escrow_id, NoSecret) IN
    IF escrow_id \notin DOMAIN escrows THEN Err(call, "EscrowNotFound")
    ELSE
    LET escrow_state == escrows[escrow_id]
        immutables == escrow_state.escrow_info.immutables
    IN
    IF sender # immutables.taker THEN Err(call, "OnlyTaker")
    ELSE IF now < rescue_start(immutables.timelocks, rescue_delay)
        THEN Err(call, "RescueDelayNotMet")
    ELSE Deactivate(call, BalanceMessages(escrow_state, sender)
                          \o DepositMessages(escrow_state, sender))

\* execute_rescue that also waits for the withdrawal stage of the escrow
execute_rescue_after_withdrawal_stage(sender, escrow_id) ==
    LET call == Call("Rescue", sender, escrow_id, NoSecret) IN
    IF escrow_id \notin DOMAIN escrows THEN Err(call, "EscrowNotFound")
    ELSE
    LET escrow_state == escrows[escrow_id]
        immutables == escrow_state.escrow_info.immutables
    IN
    IF sender # immutables.taker THEN Err(call, "OnlyTaker")
    ELSE IF ~ escrow_state.escrow_info.is_active THEN Err(call, "EscrowNotActive")
    ELSE IF now < rescue_start(immutables.timelocks, rescue_delay)
        THEN Err(call, "RescueDelayNotMet")
    ELSE IF ~ is_within_stage(immutables.timelocks, now,
                              get_withdrawal_stage(escrow_state.escrow_info.escrow_type))
        THEN Err(call, "RescueDelayNotMet")
    ELSE Deactivate(call, BalanceMessages(escrow_state, sender)
                          \o DepositMessages(escrow_state, sender))

\* execute_rescue that serves source escrows only
execute_rescue_source_only(sender, escrow_id) ==
    LET call == Call("Rescue", sender, escrow_id, NoSecret) IN
    IF escrow_id \notin DOMAIN escrows THEN Err(call, "EscrowNotFound")
    ELSE
    LET escrow_state == escrows[escrow_id]
        immutables == escrow_state.escrow_info.immutables
    IN
    IF ~ is_source(escrow_state.escrow_info.escrow_type)
        THEN Err(call, "InvalidImmutables")
    ELSE IF sender # immutables.taker THEN Err(call, "OnlyTaker")
    ELSE IF ~ escrow_state.escrow_info.is_active THEN Err(call, "EscrowNotActive")
    ELSE IF now < rescue_start(immutables.timelocks, rescue_delay)
        THEN Err(call, "RescueDelayNotMet")
    ELSE Deactivate(call, BalanceMessages(escrow_state, sender)
                          \o DepositMessages(escrow_state, sender))

execute_rescue(sender, escrow_id) ==
    LET call == Call("Rescue", sender, escrow_id, NoSecret) IN
    IF escrow_id \notin DOMAIN escrows THEN Err(call, "EscrowNotFound")
    ELSE
    LET escrow_state == escrows[escrow_id]
        immutables == escrow_state.escrow_info.immutables
    IN
    IF sender # immutables.taker THEN Err(call, "OnlyTaker")
    ELSE IF ~ escrow_state.escrow_info.is_active THEN Err(call, "EscrowNotActive")
    ELSE IF now < rescue_start(immutables.timelocks, rescue_delay)
        THEN Err(call, "RescueDelayNotMet")
    ELSE Deactivate(call, BalanceMessages(escrow_state, sender)
                          \o DepositMessages(escrow_state, sender))

\* ------------------------------------------------------------------------
\* Immutables (state.rs)
\* ------------------------------------------------------------------------
\* remainder modulo 10 of the number held in bytes i..8 of w
RECURSIVE RemAt(_, _)
RemAt(w, i) == IF i > 8 THEN 0 ELSE (RemAt(w, i + 1) * 256 + w[i]) % 10

\* w / 10
WordDiv10(w) ==
    LET F(i) == (RemAt(w, i + 1) * 256 + w[i]) \div 10
    IN  << F(1), F(2), F(3), F(4), F(5), F(6), F(7), F(8) >>

DecimalDigit(d) == SubSeq("0123456789", d + 1, d + 1)

\* u64::to_string
RECURSIVE WordToString(_)
WordToString(w) ==
    LET q == WordDiv10(w) IN
    IF q = ZeroWord
    THEN DecimalDigit(RemAt(w, 1))
    ELSE WordToString(q) \o DecimalDigit(RemAt(w, 1))

\* the SHA-256 digest of a byte string, kept as the tagged preimage
\* (distinct preimages have distinct digests)
Sha256Of(preimage) == << "sha256", preimage >>

Immutables_hash(immutables) ==
    Sha256Of(immutables.order_hash \o immutables.hashlock \o immutables.maker
             \o immutables.taker \o immutables.token
             \o ToString(immutables.amount) \o ToString(immutables.safety_deposit)
             \o WordToString(immutables.timelocks.source_data)
             \o WordToString(immutables.timelocks.destination_data))

\* Immutables::validate without the validation of the timelocks
Immutables_validate_fields_only(immutables) ==
    /\ immutables.order_hash # ""
    /\ immutables.hashlock # ""
    /\ immutables.amount # 0
    /\ immutables.safety_deposit # 0

\* Immutables::validate: TRUE for Ok
Immutables_validate(immutables) ==
    /\ immutables.order_hash # ""
    /\ immutables.hashlock # ""
    /\ immutables.amount # 0
    /\ immutables.safety_deposit # 0
    /\ PackedTimelocks_validate(immutables.timelocks)

\* get_next_escrow_id when the counter is never read back (always the default)
get_next_escrow_id_default(current_id) == 0 + 1

\* get_next_escrow_id returning the counter it loaded
get_next_escrow_id_not_incremented(current_id) == current_id

get_next_escrow_id(current_id) == current_id + 1

\* ------------------------------------------------------------------------
\* Factory helpers
\* ------------------------------------------------------------------------
\* validate_escrow_creation: TRUE for Ok
validate_escrow_creation(params) ==
    /\ params.order_hash # ""
    /\ params.hashlock # ""
    /\ params.amount > 0
    /\ params.safety_deposit > 0

\* digest of contract address, order hash, hashlock and salt
compute_escrow_address(contract_addr, order_hash, hashlock, salt) ==
    Sha256Of(<< contract_addr, order_hash, hashlock, salt >>)

escrow_exists_by_hash(hash) == hash \in DOMAIN escrow_by_hash

\* the Immutables of a new escrow keeping the deployed_at of the request
CreationImmutables_request_deployed_at(params, block_time) ==
    [order_hash |-> params.order_hash,
     hashlock |-> params.hashlock,
     maker |-> params.maker,
     taker |-> params.taker,
     token |-> params.token,
     amount |-> params.amount,
     safety_deposit |-> params.safety_deposit,
     timelocks |-> PackedTimelocks_new(
         deployed_at(params.timelocks),
         get(params.timelocks, "SrcWithdrawal"),
         get(params.timelocks, "SrcPublicWithdrawal"),
         get(params.timelocks, "SrcCancellation"),
         get(params.timelocks, "SrcPublicCancellation"),
         get(params.timelocks, "DstWithdrawal"),
         get(params.timelocks, "DstPublicWithdrawal"),
         get(params.timelocks, "DstCancellation"))]

\* ------------------------------------------------------------------------
\* Creation (factory.rs)
\* ------------------------------------------------------------------------
\* the Immutables of a new escrow: the request's terms, with deployed_at
\* replaced by the block time (as u32) and the seven offsets kept
CreationImmutables(params, block_time) ==
    [order_hash |-> params.order_hash,
     hashlock |-> params.hashlock,
     maker |-> params.maker,
     taker |-> params.taker,
     token |-> params.token,
     amount |-> params.amount,
     safety_deposit |-> params.safety_deposit,
     timelocks |-> PackedTimelocks_new(
         block_time,
         get(params.timelocks, "SrcWithdrawal"),
         get(params.timelocks, "SrcPublicWithdrawal"),
         get(params.timelocks, "SrcCancellation"),
         get(params.timelocks, "SrcPublicCancellation"),
         get(params.timelocks, "DstWithdrawal"),
         get(params.timelocks, "DstPublicWithdrawal"),
         get(params.timelocks, "DstCancellation"))]

DstImmutablesComplement(params) ==
    [maker |-> params.maker, amount |-> params.dst_amount,
     token |-> params.dst_token, safety_deposit |-> params.safety_deposit,
     chain_id |-> params.dst_chain_id]

\* EscrowState with a main balance different from the requested amount
NewEscrowState_no_balance(immutables, dst_complement, params, block_time) ==
    [escrow_info |-> [immutables |-> immutables,
                      dst_complement |-> dst_complement,
                      escrow_type |-> params.escrow_type,
                      is_active |-> TRUE,
                      created_at |-> block_time],
     balance |-> 0,
     native_balance |-> params.safety_deposit]

NewEscrowState(immutables, dst_complement, params, block_time) ==
    [escrow_info |-> [immutables |-> immutables,
                      dst_complement |-> dst_complement,
                      escrow_type |-> params.escrow_type,
                      is_active |-> TRUE,
                      created_at |-> block_time],
     balance |-> params.amount,
     native_balance |-> params.safety_deposit]

EscrowCreationRequest(params, block_time, status, escrow_address) ==
    [params |-> params, created_at |-> block_time, status |-> status,
     escrow_address |-> escrow_address]

RequestKey(order_hash, hashlock) == order_hash \o ":" \o hashlock

\* a creation that returns an error after it has saved the Pending request
\* and the address mapping, were those writes to stay
Discard_kept(call, e, requests, addresses) ==
    /\ last' = [op |-> call.op, sender |-> call.sender, escrow_id |-> call.escrow_id,
                secret |-> call.secret, request |-> call.request,
                result |-> e, messages |-> <<>>]
    /\ creation_requests' = requests
    /\ escrow_addresses' = addresses
    /\ UNCHANGED << escrows, escrow_counter, escrow_by_hash, rescue_delay, now,
                    successes, probe, pending >>

\* a creation that returns an error after it has saved the Pending request
\* (requests) and the address mapping (addresses): the error is the result of
\* the execute call, whose writes are then not committed
Discard(call, e, requests, addresses) == Err(call, e)

\* SaveCreated without the final save of the request as Created
SaveCreated_left_pending(call, params, escrow_address, requests, addresses) ==
    LET immutables == CreationImmutables(params, now)
        escrow_hash == Immutables_hash(immutables)
        escrow_id == get_next_escrow_id(escrow_counter)
        dst_complement ==
            IF is_source(params.escrow_type)
            THEN << DstImmutablesComplement(params) >>
            ELSE << >>
        escrow_state == NewEscrowState(immutables, dst_complement, params, now)
        request_key == RequestKey(params.order_hash, params.hashlock)
        updated_request == EscrowCreationRequest(params, now, "Created", escrow_address)
    IN  /\ escrow_counter' = escrow_id
        /\ escrows' = (escrow_id :> escrow_state) @@ escrows
        /\ escrow_by_hash' = (escrow_hash :> escrow_id) @@ escrow_by_hash
        /\ escrow_addresses' = addresses
        /\ creation_requests' = requests
        /\ last' = [op |-> call.op, sender |-> call.sender, escrow_id |-> escrow_id,
                    secret |-> call.secret, request |-> call.request,
                    result |-> "Ok", messages |-> << >>]
        /\ UNCHANGED << rescue_delay, now, successes, probe, pending >>

\* the successful end of a creation: escrow saved under the next id, indexed
\* by hash, and the request marked Created
SaveCreated(call, params, escrow_address, requests, addresses) ==
    LET immutables == CreationImmutables(params, now)
        escrow_hash == Immutables_hash(immutables)
        escrow_id == get_next_escrow_id(escrow_counter)
        dst_complement ==
            IF is_source(params.escrow_type)
            THEN << DstImmutablesComplement(params) >>
            ELSE << >>
        escrow_state == NewEscrowState(immutables, dst_complement, params, now)
        request_key == RequestKey(params.order_hash, params.hashlock)
        updated_request == EscrowCreationRequest(params, now, "Created", escrow_address)
    IN  /\ escrow_counter' = escrow_id
        /\ escrows' = (escrow_id :> escrow_state) @@ escrows
        /\ escrow_by_hash' = (escrow_hash :> escrow_id) @@ escrow_by_hash
        /\ escrow_addresses' = addresses
        /\ creation_requests' = (request_key :> updated_request) @@ requests
        /\ last' = [op |-> call.op, sender |-> call.sender, escrow_id |-> escrow_id,
                    secret |-> call.secret, request |-> call.request,
                    result |-> "Ok", messages |-> << >>]
        /\ UNCHANGED << rescue_delay, now, successes, probe, pending >>

\* execute_create_escrow that takes a hash already indexed as new
execute_create_escrow_no_hash_check(sender, params, salt, sent_fee) ==
    LET call == FactoryCall("CreateEscrow", sender, params, salt, sent_fee)
        escrow_address == compute_escrow_address(ContractAddr, params.order_hash,
                                                 params.hashlock, salt)
        request_key == RequestKey(params.order_hash, params.hashlock)
        creation_request == EscrowCreationRequest(params, now, "Pending", escrow_address)
        requests == (request_key :> creation_request) @@ creation_requests
        addresses == escrow_addresses \cup {escrow_address}
        immutables == CreationImmutables(params, now)
    IN
    IF ~ validate_escrow_creation(params) THEN Err(call, "InvalidImmutables")
    ELSE IF sent_fee < CreationFee THEN Err(call, "InsufficientBalance")
    ELSE IF escrow_address \in escrow_addresses THEN Err(call, "EscrowAlreadyExists")
    ELSE IF ~ Immutables_validate(immutables)
        THEN Discard(call, "Std", requests, addresses)
    ELSE SaveCreated(call, params, escrow_address, requests, addresses)

execute_create_escrow(sender, params, salt, sent_fee) ==
    LET call == FactoryCall("CreateEscrow", sender, params, salt, sent_fee)
        escrow_address == compute_escrow_address(ContractAddr, params.order_hash,
                                                 params.hashlock, salt)
        request_key == RequestKey(params.order_hash, params.hashlock)
        creation_request == EscrowCreationRequest(params, now, "Pending", escrow_address)
        requests == (request_key :> creation_request) @@ creation_requests
        addresses == escrow_addresses \cup {escrow_address}
        immutables == CreationImmutables(params, now)
    IN
    IF ~ validate_escrow_creation(params) THEN Err(call, "InvalidImmutables")
    ELSE IF sent_fee < CreationFee THEN Err(call, "InsufficientBalance")
    ELSE IF escrow_address \in escrow_addresses THEN Err(call, "EscrowAlreadyExists")
    ELSE IF ~ Immutables_validate(immutables)
        THEN Discard(call, "Std", requests, addresses)
    ELSE IF escrow_exists_by_hash(Immutables_hash(immutables))
        THEN Discard(call, "EscrowAlreadyExists", requests, addresses)
    ELSE SaveCreated(call, params, escrow_address, requests, addresses)

\* execute_handle_post_interaction without the comparison of the funds sent
execute_handle_post_interaction_any_funds(sender, msg, sent_amount) ==
    LET params == [msg EXCEPT !.escrow_type = "Source"]
        salt == "post_interaction_" \o msg.order_hash
        call == FactoryCall("HandlePostInteraction", sender, params, salt, sent_amount)
        total_required == msg.amount + msg.safety_deposit
        escrow_address == compute_escrow_address(ContractAddr, params.order_hash,
                                                 params.hashlock, salt)
        request_key == RequestKey(params.order_hash, params.hashlock)
        creation_request == EscrowCreationRequest(params, now, "Pending", escrow_address)
        requests == (request_key :> creation_request) @@ creation_requests
        addresses == escrow_addresses \cup {escrow_address}
        immutables == CreationImmutables(params, now)
    IN
    IF ~ validate_escrow_creation(params) THEN Err(call, "InvalidImmutables")
    ELSE IF escrow_address \in escrow_addresses THEN Err(call, "EscrowAlreadyExists")
    ELSE IF ~ Immutables_validate(immutables)
        THEN Discard(call, "Std", requests, addresses)
    ELSE IF escrow_exists_by_hash(Immutables_hash(immutables))
        THEN Discard(call, "EscrowAlreadyExists", requests, addresses)
    ELSE SaveCreated(call, params, escrow_address, requests, addresses)

\* the message carries no escrow_type: the escrow is always a Source one
execute_handle_post_interaction(sender, msg, sent_amount) ==
    LET params == [msg EXCEPT !.escrow_type = "Source"]
        salt == "post_interaction_" \o msg.order_hash
        call == FactoryCall("HandlePostInteraction", sender, params, salt, sent_amount)
        total_required == msg.amount + msg.safety_deposit
        escrow_address == compute_escrow_address(ContractAddr, params.order_hash,
                                                 params.hashlock, salt)
        request_key == RequestKey(params.order_hash, params.hashlock)
        creation_request == EscrowCreationRequest(params, now, "Pending", escrow_address)
        requests == (request_key :> creation_request) @@ creation_requests
        addresses == escrow_addresses \cup {escrow_address}
        immutables == CreationImmutables(params, now)
    IN
    IF ~ validate_escrow_creation(params) THEN Err(call, "InvalidImmutables")
    ELSE IF sent_amount # total_required THEN Err(call, "InsufficientBalance")
    ELSE IF escrow_address \in escrow_addresses THEN Err(call, "EscrowAlreadyExists")
    ELSE IF ~ Immutables_validate(immutables)
        THEN Discard(call, "Std", requests, addresses)
    ELSE IF escrow_exists_by_hash(Immutables_hash(immutables))
        THEN Discard(call, "EscrowAlreadyExists", requests, addresses)
    ELSE SaveCreated(call, params, escrow_address, requests, addresses)

\* execute_cancel_creation_request without the check of the status
execute_cancel_creation_request_any_status(sender, order_hash, hashlock) ==
    LET call == FactoryCall("CancelCreationRequest", sender,
                            [order_hash |-> order_hash, hashlock |-> hashlock], "", 0)
        request_key == RequestKey(order_hash, hashlock)
    IN
    IF sender # config.owner THEN Err(call, "Unauthorized")
    ELSE IF request_key \notin DOMAIN creation_requests THEN Err(call, "EscrowNotFound")
    ELSE /\ creation_requests' =
                [creation_requests EXCEPT ![request_key].status = "Cancelled"]
         /\ last' = [op |-> call.op, sender |-> call.sender, escrow_id |-> 0,
                     secret |-> NoSecret, request |-> call.request,
                     result |-> "Ok", messages |-> << >>]
         /\ UNCHANGED << escrows, escrow_counter, escrow_by_hash, escrow_addresses,
                         rescue_delay, now, successes, probe, pending >>

execute_cancel_creation_request(sender, order_hash, hashlock) ==
    LET call == FactoryCall("CancelCreationRequest", sender,
                            [order_hash |-> order_hash, hashlock |-> hashlock], "", 0)
        request_key == RequestKey(order_hash, hashlock)
    IN
    IF sender # config.owner THEN Err(call, "Unauthorized")
    ELSE IF request_key \notin DOMAIN creation_requests THEN Err(call, "EscrowNotFound")
    ELSE IF creation_requests[request_key].status # "Pending"
        THEN Err(call, "InvalidImmutables")
    ELSE /\ creation_requests' =
                [creation_requests EXCEPT ![request_key].status = "Cancelled"]
         /\ last' = [op |-> call.op, sender |-> call.sender, escrow_id |-> 0,
                     secret |-> NoSecret, request |-> call.request,
                     result |-> "Ok", messages |-> << >>]
         /\ UNCHANGED << escrows, escrow_counter, escrow_by_hash, escrow_addresses,
                         rescue_delay, now, successes, probe, pending >>

\* ------------------------------------------------------------------------
\* The contract's entry point: one call per step
\* ------------------------------------------------------------------------
CreateEscrow ==
    /\ escrow_counter < MaxEscrows
    /\ now <= TimeAt(MaxCreateTick)
    /\ \E c \in CreateCalls, salt \in Salts :
          execute_create_escrow(c[1], c[2], salt, c[3])

HandlePostInteraction ==
    /\ escrow_counter < MaxEscrows
    /\ now <= TimeAt(MaxCreateTick)
    /\ \E c \in PostInteractionCalls :
          execute_handle_post_interaction(c[1], c[2], c[3])

CancelCreationRequest ==
    \E c \in CancelCalls : execute_cancel_creation_request(c[1], c[2], c[3])

WithdrawSrc ==
    \E sender \in Callers, escrow_id \in EscrowIds, secret \in Secrets :
        execute_withdraw_src(sender, escrow_id, secret)

WithdrawDst ==
    \E sender \in Callers, escrow_id \in EscrowIds, secret \in Secrets :
        execute_withdraw_dst(sender, escrow_id, secret)

CancelSrc ==
    \E sender \in CancelCallers, escrow_id \in EscrowIds :
        execute_cancel_src(sender, escrow_id)

CancelDst ==
    \E sender \in CancelCallers, escrow_id \in EscrowIds :
        execute_cancel_dst(sender, escrow_id)

PublicWithdrawSrc ==
    \E sender \in Callers, escrow_id \in EscrowIds :
        execute_public_withdraw_src(sender, escrow_id)

PublicWithdrawDst ==
    \E sender \in Callers, escrow_id \in EscrowIds :
        execute_public_withdraw_dst(sender, escrow_id)

PublicCancelSrc ==
    \E sender \in Callers, escrow_id \in EscrowIds :
        execute_public_cancel_src(sender, escrow_id)

Rescue ==
    \E sender \in Callers, escrow_id \in EscrowIds : execute_rescue(sender, escrow_id)

Next ==
    \/ Tick
    \/ CreateEscrow
    \/ HandlePostInteraction
    \/ CancelCreationRequest
    \/ WithdrawSrc
    \/ WithdrawDst
    \/ CancelSrc
    \/ CancelDst
    \/ PublicWithdrawSrc
    \/ PublicWithdrawDst
    \/ PublicCancelSrc
    \/ Rescue

Spec == Init /\ [][Next]_vars

\* ------------------------------------------------------------------------
\* Vocabulary of the properties
\* ------------------------------------------------------------------------
SrcOps == {"WithdrawSrc", "CancelSrc", "PublicWithdrawSrc", "PublicCancelSrc"}
DstOps == {"WithdrawDst", "CancelDst", "PublicWithdrawDst"}
WithdrawOps == {"WithdrawSrc", "WithdrawDst"}
CancelOps == {"CancelSrc", "CancelDst"}
PublicWithdrawOps == {"PublicWithdrawSrc", "PublicWithdrawDst"}
PublicOps == PublicWithdrawOps \cup {"PublicCancelSrc"}
TerminalOps == SrcOps \cup DstOps \cup {"Rescue"}

\* the error taxonomy of the specification, in terms of ContractError
InvalidStateErrors == {"EscrowNotActive", "InvalidImmutables"}
UnauthorizedErrors == {"OnlyTaker", "OnlyAccessTokenHolder"}

IsActive(id) == escrows[id].escrow_info.is_active
ImmutablesOf(id) == escrows[id].escrow_info.immutables
TypeOf(id) == escrows[id].escrow_info.escrow_type

\* the operation is one of the record's own side (Rescue has no side)
RoleMatches(op, id) ==
    \/ op = "Rescue"
    \/ op \in SrcOps /\ TypeOf(id) = "Source"
    \/ op \in DstOps /\ TypeOf(id) = "Destination"

\* the caller passes the operation's access check
CallerAuthorized(op, sender, id) ==
    IF op \in PublicOps THEN sender = config.access_token
    ELSE sender = ImmutablesOf(id).taker

\* the last step was a terminal operation on an existing escrow
TerminalCallOn(id) ==
    /\ last.op \in TerminalOps
    /\ last.escrow_id = id
    /\ id \in DOMAIN escrows

\* ------------------------------------------------------------------------
\* Properties
\* ------------------------------------------------------------------------

\* C1: in every behaviour at most one terminal operation (withdraw, cancel,
\* public withdraw, public cancel, rescue) ever succeeds for a given escrow id.
C1_AtMostOneTerminalSuccess == \A id \in EscrowIds : successes[id] <= 1

\* a terminal operation has succeeded on the escrow and a later one, by the
\* taker, was turned away
C1_Witness ==
    \E id \in EscrowIds :
        /\ successes[id] = 1
        /\ TerminalCallOn(id)
        /\ last.sender = ImmutablesOf(id).taker
        /\ last.result = "EscrowNotActive"

\* C2 as stated: once a record is inactive, every later terminal call on it,
\* by any caller, fails with InvalidState and issues no transfer.
C2_InactiveAlwaysInvalidState ==
    [][ \A id \in DOMAIN escrows :
          (~ IsActive(id) /\ last'.op \in TerminalOps /\ last'.escrow_id = id)
          => (last'.result \in InvalidStateErrors /\ last'.messages = << >>) ]_vars

\* C2 amended: once a record is inactive, every later terminal call on it
\* fails, issues no transfer and leaves the storage unchanged; the error is
\* InvalidState when the operation is of the other role or the caller passes
\* the operation's access check, and Unauthorized when the role matches and
\* the caller does not pass it.
C2_InactiveRejectsEveryCall ==
    [][ \A id \in DOMAIN escrows :
          (~ IsActive(id) /\ last'.op \in TerminalOps /\ last'.escrow_id = id)
          => /\ last'.messages = << >>
             /\ UNCHANGED storage
             /\ last'.result =
                  IF ~ RoleMatches(last'.op, id) THEN "InvalidImmutables"
                  ELSE IF ~ CallerAuthorized(last'.op, last'.sender, id)
                       THEN (IF last'.op \in PublicOps THEN "OnlyAccessTokenHolder"
                             ELSE "OnlyTaker")
                  ELSE "EscrowNotActive" ]_vars

\* an unauthorized caller's call of the matching role on an inactive record
\* was answered Unauthorized
C2_Witness ==
    \E id \in EscrowIds :
        /\ TerminalCallOn(id)
        /\ ~ IsActive(id)
        /\ RoleMatches(last.op, id)
        /\ last.result \in UnauthorizedErrors

\* C3: a record is created Active and is never reactivated: no step changes
\* is_active of an existing record from false to true.
C3_NeverReactivated ==
    [][ /\ \A id \in DOMAIN escrows :
              ~ IsActive(id)
              => (id \in DOMAIN escrows' /\ ~ escrows'[id].escrow_info.is_active)
        /\ \A id \in (DOMAIN escrows') \ (DOMAIN escrows) :
              escrows'[id].escrow_info.is_active ]_vars

\* an escrow was created after another one had been deactivated
C3_Witness ==
    /\ last.op = "CreateEscrow"
    /\ last.result = "Ok"
    /\ \E id \in DOMAIN escrows : ~ IsActive(id)


\* the stage that gates an operation, and its time, read off the record
StageGatedOps == WithdrawOps \cup CancelOps \cup PublicOps

StageOfOp(op) ==
    CASE op = "WithdrawSrc" -> "SrcWithdrawal"
      [] op = "PublicWithdrawSrc" -> "SrcPublicWithdrawal"
      [] op = "CancelSrc" -> "SrcCancellation"
      [] op = "PublicCancelSrc" -> "SrcPublicCancellation"
      [] op = "WithdrawDst" -> "DstWithdrawal"
      [] op = "PublicWithdrawDst" -> "DstPublicWithdrawal"
      [] op = "CancelDst" -> "DstCancellation"

StageTimeOfOp(op, id) ==
    deployed_at(ImmutablesOf(id).timelocks)
        + get(ImmutablesOf(id).timelocks, StageOfOp(op)) * 3600

\* the secret of the call hashes to the record's hashlock
SecretMatches(secret, id) ==
    secret \in Secrets /\ Sha256Hex(secret) = ImmutablesOf(id).hashlock

WithdrawalRecipient(id) ==
    IF TypeOf(id) = "Source" THEN ImmutablesOf(id).taker ELSE ImmutablesOf(id).maker

CancellationRecipient(id) ==
    IF TypeOf(id) = "Source" THEN ImmutablesOf(id).maker ELSE ImmutablesOf(id).taker

\* msg moves exactly the record's main balance (native coin or CW20 token,
\* as the record's token says) to recipient
IsBalanceTransfer(msg, id, recipient) ==
    /\ msg.recipient = recipient
    /\ msg.amount = escrows[id].balance
    /\ msg.amount = ImmutablesOf(id).amount
    /\ IF ImmutablesOf(id).token = ""
       THEN msg.kind = "Bank"
       ELSE msg.kind = "Cw20Transfer" /\ msg.contract_addr = ImmutablesOf(id).token

\* msg moves exactly the safety deposit to recipient
IsDepositTransfer(msg, id, recipient) ==
    /\ msg.kind = "Bank"
    /\ msg.recipient = recipient
    /\ msg.amount = escrows[id].native_balance
    /\ msg.amount = ImmutablesOf(id).safety_deposit

\* C4: Withdraw succeeds only if the SHA-256 hex digest of the supplied secret
\* equals the stored hashlock; with any other secret the call fails, writes
\* nothing and issues no transfer, and the taker's call on an Active record
\* of the operation's role is answered InvalidSecret (SecretMismatch), the
\* record staying Active.
C4_WithdrawNeedsSecret ==
    [][ \A id \in DOMAIN escrows :
          (last'.op \in WithdrawOps /\ last'.escrow_id = id)
          => /\ last'.result = "Ok" => SecretMatches(last'.secret, id)
             /\ ~ SecretMatches(last'.secret, id)
                => /\ last'.result # "Ok"
                   /\ last'.messages = << >>
                   /\ UNCHANGED storage
             /\ ( /\ ~ SecretMatches(last'.secret, id)
                  /\ RoleMatches(last'.op, id)
                  /\ last'.sender = ImmutablesOf(id).taker
                  /\ IsActive(id) )
                => /\ last'.result = "InvalidSecret"
                   /\ escrows'[id].escrow_info.is_active ]_vars

\* the taker's Withdraw with a wrong secret, after the withdrawal stage time,
\* was answered InvalidSecret and the record is still Active
C4_Witness ==
    \E id \in EscrowIds :
        /\ TerminalCallOn(id)
        /\ last.op \in WithdrawOps
        /\ last.sender = ImmutablesOf(id).taker
        /\ ~ SecretMatches(last.secret, id)
        /\ now >= StageTimeOfOp(last.op, id)
        /\ last.result = "InvalidSecret"
        /\ IsActive(id)

\* C5: Withdraw, PublicWithdraw, Cancel and PublicCancel succeed only at
\* now >= deployed_at + offset(stage) * 3600 for the stage of the operation
\* and role; an earlier call that passes the other checks is answered
\* TimelockNotExpired.
C5_NoSuccessBeforeStageTime ==
    \A id \in DOMAIN escrows :
        (TerminalCallOn(id) /\ last.op \in StageGatedOps)
        => /\ last.result = "Ok" => now >= StageTimeOfOp(last.op, id)
           /\ ( /\ now < StageTimeOfOp(last.op, id)
                /\ RoleMatches(last.op, id)
                /\ CallerAuthorized(last.op, last.sender, id)
                /\ IsActive(id)
                /\ last.op \in WithdrawOps => SecretMatches(last.secret, id) )
              => last.result = "TimelockNotExpired"

\* a call that passes every other check, one second before its stage time,
\* was answered TimelockNotExpired
C5_Witness ==
    \E id \in EscrowIds :
        /\ TerminalCallOn(id)
        /\ last.op \in StageGatedOps
        /\ now = StageTimeOfOp(last.op, id) - 1
        /\ last.result = "TimelockNotExpired"

\* C6: a terminal operation succeeds only for an authorized caller (the
\* taker for Withdraw, Cancel and Rescue; the access-token holder for
\* PublicWithdraw and PublicCancel); any other caller's call fails, writes
\* nothing, issues no transfer, and on a record of the operation's role is
\* answered OnlyTaker / OnlyAccessTokenHolder (Unauthorized).
C6_OnlyAuthorizedCallers ==
    [][ \A id \in DOMAIN escrows :
          (last'.op \in TerminalOps /\ last'.escrow_id = id)
          => /\ last'.result = "Ok" => CallerAuthorized(last'.op, last'.sender, id)
             /\ ~ CallerAuthorized(last'.op, last'.sender, id)
                => /\ last'.result # "Ok"
                   /\ last'.messages = << >>
                   /\ UNCHANGED storage
                   /\ RoleMatches(last'.op, id) => last'.result \in UnauthorizedErrors ]_vars

\* a caller other than the authorized one, on an Active record whose stage
\* time has passed, was answered Unauthorized
C6_Witness ==
    \E id \in EscrowIds :
        /\ TerminalCallOn(id)
        /\ last.op \in StageGatedOps
        /\ RoleMatches(last.op, id)
        /\ ~ CallerAuthorized(last.op, last.sender, id)
        /\ IsActive(id)
        /\ now >= StageTimeOfOp(last.op, id)
        /\ last.result \in UnauthorizedErrors

\* C7: a successful Withdraw returns, in this order, a transfer of exactly
\* the record's balance to the withdrawal recipient (taker for Source, maker
\* for Destination) and a transfer of exactly the safety deposit to the
\* caller, and the record is Inactive.
C7_WithdrawPayout ==
    \A id \in DOMAIN escrows :
        (TerminalCallOn(id) /\ last.op \in WithdrawOps /\ last.result = "Ok")
        => /\ Len(last.messages) = 2
           /\ IsBalanceTransfer(last.messages[1], id, WithdrawalRecipient(id))
           /\ IsDepositTransfer(last.messages[2], id, last.sender)
           /\ ~ IsActive(id)

\* a Withdraw on a Destination escrow has succeeded
C7_Witness ==
    \E id \in EscrowIds :
        /\ TerminalCallOn(id)
        /\ last.op = "WithdrawDst"
        /\ last.result = "Ok"

\* C8: a successful Cancel carries no secret and returns a refund of exactly
\* the record's balance to the cancellation recipient (maker for Source,
\* taker for Destination) followed by the safety deposit to the caller, and
\* the record is Inactive.
C8_CancelRefund ==
    \A id \in DOMAIN escrows :
        (TerminalCallOn(id) /\ last.op \in CancelOps /\ last.result = "Ok")
        => /\ last.secret = NoSecret
           /\ Len(last.messages) = 2
           /\ IsBalanceTransfer(last.messages[1], id, CancellationRecipient(id))
           /\ IsDepositTransfer(last.messages[2], id, last.sender)
           /\ ~ IsActive(id)

\* a Cancel on a Source escrow has succeeded
C8_Witness ==
    \E id \in EscrowIds :
        /\ TerminalCallOn(id)
        /\ last.op = "CancelSrc"
        /\ last.result = "Ok"

\* C9: a successful PublicWithdraw pays the main balance to the recipient of
\* the private Withdraw (taker for Source, maker for Destination), whoever
\* the caller is, and only the safety deposit to the caller.
C9_PublicWithdrawSameRecipient ==
    \A id \in DOMAIN escrows :
        (TerminalCallOn(id) /\ last.op \in PublicWithdrawOps /\ last.result = "Ok")
        => /\ Len(last.messages) = 2
           /\ IsBalanceTransfer(last.messages[1], id, WithdrawalRecipient(id))
           /\ IsDepositTransfer(last.messages[2], id, last.sender)

\* C10: PublicWithdraw succeeds only if a secret whose hash equals the
\* hashlock is supplied; without one it never deactivates the record or
\* issues transfers.
C10_PublicWithdrawNeedsSecret ==
    \A id \in DOMAIN escrows :
        (TerminalCallOn(id) /\ last.op \in PublicWithdrawOps /\ last.result = "Ok")
        => SecretMatches(last.secret, id)

\* C11: PublicCancel exists only for Source escrows: on a Destination escrow
\* it fails with InvalidState whoever calls and whenever, writing nothing; on
\* an Active Source escrow, called by the access-token holder at
\* now >= the SrcPublicCancellation stage time, it refunds the balance to the
\* maker, pays the safety deposit to the caller and deactivates the record.
C11_PublicCancelSourceOnly ==
    [][ \A id \in DOMAIN escrows :
          (last'.op = "PublicCancelSrc" /\ last'.escrow_id = id)
          => /\ TypeOf(id) = "Destination"
                => /\ last'.result \in InvalidStateErrors
                   /\ last'.messages = << >>
                   /\ UNCHANGED storage
             /\ ( /\ TypeOf(id) = "Source"
                  /\ IsActive(id)
                  /\ last'.sender = config.access_token
                  /\ now >= StageTimeOfOp("PublicCancelSrc", id) )
                => /\ last'.result = "Ok"
                   /\ Len(last'.messages) = 2
                   /\ IsBalanceTransfer(last'.messages[1], id, ImmutablesOf(id).maker)
                   /\ IsDepositTransfer(last'.messages[2], id, last'.sender)
                   /\ ~ escrows'[id].escrow_info.is_active ]_vars

\* a PublicCancel on a Source escrow has succeeded
C11_Witness ==
    \E id \in EscrowIds :
        /\ TerminalCallOn(id)
        /\ last.op = "PublicCancelSrc"
        /\ TypeOf(id) = "Source"
        /\ last.result = "Ok"

\* C12: Rescue by the taker on an Active escrow of either role fails with
\* RescueDelayNotMet (TimelockNotElapsed) at every now < deployed_at +
\* rescue_delay, writing nothing, and succeeds at every now >= deployed_at +
\* rescue_delay, with no secret and no stage check, sweeping the balance and
\* the safety deposit to the caller and deactivating the record.
C12_RescueGate ==
    [][ \A id \in DOMAIN escrows :
          ( /\ last'.op = "Rescue"
            /\ last'.escrow_id = id
            /\ last'.sender = ImmutablesOf(id).taker
            /\ IsActive(id) )
          => IF now < deployed_at(ImmutablesOf(id).timelocks) + rescue_delay
             THEN /\ last'.result = "RescueDelayNotMet"
                  /\ last'.messages = << >>
                  /\ UNCHANGED storage
             ELSE /\ last'.result = "Ok"
                  /\ last'.secret = NoSecret
                  /\ Len(last'.messages) = 2
                  /\ IsBalanceTransfer(last'.messages[1], id, last'.sender)
                  /\ IsDepositTransfer(last'.messages[2], id, last'.sender)
                  /\ ~ escrows'[id].escrow_info.is_active ]_vars

\* the taker's Rescue has succeeded at exactly deployed_at + rescue_delay,
\* with a rescue delay that is not zero
C12_Witness ==
    \E id \in EscrowIds :
        /\ TerminalCallOn(id)
        /\ last.op = "Rescue"
        /\ last.result = "Ok"
        /\ rescue_delay > 0
        /\ now = deployed_at(ImmutablesOf(id).timelocks) + rescue_delay

\* C13: role gating: every Src operation on a Destination escrow and every Dst
\* operation on a Source escrow fails with InvalidImmutables (InvalidState)
\* for every caller, secret and time, writing nothing (the record stays as it
\* was); only an operation of the record's own role succeeds.
C13_RoleGating ==
    [][ \A id \in DOMAIN escrows :
          (last'.op \in SrcOps \cup DstOps /\ last'.escrow_id = id)
          => /\ last'.result = "Ok" => RoleMatches(last'.op, id)
             /\ ~ RoleMatches(last'.op, id)
                => /\ last'.result = "InvalidImmutables"
                   /\ last'.messages = << >>
                   /\ UNCHANGED storage ]_vars

\* the access-token holder's PublicWithdrawSrc on an Active Destination
\* escrow, after its public withdrawal time, was answered InvalidState
C13_Witness ==
    \E id \in EscrowIds :
        /\ TerminalCallOn(id)
        /\ last.op = "PublicWithdrawSrc"
        /\ TypeOf(id) = "Destination"
        /\ last.sender = config.access_token
        /\ IsActive(id)
        /\ now >= StageTimeOfOp("PublicWithdrawDst", id)
        /\ last.result = "InvalidImmutables"

\* ------------------------------------------------------------------------
\* Vocabulary of the creation properties
\* ------------------------------------------------------------------------
CreateOps == {"CreateEscrow", "HandlePostInteraction"}

\* the error taxonomy of the specification, continued
InvalidInputErrors == {"InvalidImmutables", "InvalidAmount", "Std"}

\* of a response to a creation: the parameters, salt and funds of the call,
\* the address the call computes and the Immutables it builds
ParamsOf(response) == response.request[1].params
FundsOf(response) == response.request[1].funds

AddressOf(response) ==
    compute_escrow_address(ContractAddr, ParamsOf(response).order_hash,
                           ParamsOf(response).hashlock, response.request[1].salt)

TermsOf(response) == CreationImmutables(ParamsOf(response), now)

\* the funds sent pass the operation's funds check
FundsAccepted(response) ==
    IF response.op = "CreateEscrow"
    THEN FundsOf(response) >= 10
    ELSE FundsOf(response) = ParamsOf(response).amount
                             + ParamsOf(response).safety_deposit

\* the terms are malformed in one of the ways the specification lists
Malformed(params) ==
    \/ params.order_hash = ""
    \/ params.hashlock = ""
    \/ params.amount = 0
    \/ params.safety_deposit = 0
    \/ ~ ( /\ get(params.timelocks, "SrcWithdrawal") < get(params.timelocks, "SrcPublicWithdrawal")
           /\ get(params.timelocks, "SrcPublicWithdrawal") < get(params.timelocks, "SrcCancellation")
           /\ get(params.timelocks, "SrcCancellation") < get(params.timelocks, "SrcPublicCancellation") )
    \/ ~ ( /\ get(params.timelocks, "DstWithdrawal") < get(params.timelocks, "DstPublicWithdrawal")
           /\ get(params.timelocks, "DstPublicWithdrawal") < get(params.timelocks, "DstCancellation") )

C15_CreateOnlyByAuthority ==
    (last.op = "CreateEscrow" /\ last.result = "Ok")
    => last.sender \in {config.factory, config.owner}

\* C16: a creation succeeds only if the caller supplied exactly
\* amount + safety_deposit.
C16_CreateNeedsExactFunds ==
    (last.op \in CreateOps /\ last.result = "Ok")
    => FundsOf(last) = ParamsOf(last).amount + ParamsOf(last).safety_deposit

C18_SequentialIds ==
    [][ /\ DOMAIN escrows' = 1..escrow_counter'
        /\ \A id \in DOMAIN escrows :
               /\ id \in DOMAIN escrows'
               /\ escrows'[id].escrow_info.immutables = ImmutablesOf(id)
        /\ (last'.op \in CreateOps /\ last'.result = "Ok")
           => /\ escrow_counter' = escrow_counter + 1
              /\ last'.escrow_id = escrow_counter'
              /\ escrows'[last'.escrow_id].escrow_info.immutables = TermsOf(last')
        /\ (last'.op \in CreateOps /\ last'.result # "Ok")
           => /\ escrow_counter' = escrow_counter
              /\ escrows' = escrows ]_vars

\* a second escrow was created and stored under id 2
C18_Witness ==
    /\ last.op \in CreateOps
    /\ last.result = "Ok"
    /\ last.escrow_id = 2
    /\ escrow_counter = 2

C20_CreatedRecord ==
    /\ \A id \in DOMAIN escrows :
           (escrows[id].escrow_info.dst_complement # << >>) <=> (TypeOf(id) = "Source")
    /\ (last.op \in CreateOps /\ last.result = "Ok")
       => /\ last.escrow_id \in DOMAIN escrows
          /\ IsActive(last.escrow_id)
          /\ escrows[last.escrow_id].balance = ParamsOf(last).amount
          /\ escrows[last.escrow_id].native_balance = ParamsOf(last).safety_deposit
          /\ TypeOf(last.escrow_id) = ParamsOf(last).escrow_type
          /\ ImmutablesOf(last.escrow_id) = TermsOf(last)

\* a Destination escrow was created next to a Source escrow
C20_Witness ==
    /\ last.op = "CreateEscrow"
    /\ last.result = "Ok"
    /\ TypeOf(last.escrow_id) = "Destination"
    /\ \E id \in DOMAIN escrows : TypeOf(id) = "Source"

\* ------------------------------------------------------------------------
\* Stored terms
\* ------------------------------------------------------------------------
\* the stage times of a schedule are strictly ordered on both chain sides
StageTimesOrdered(t) ==
    /\ get_stage_time(t, "SrcWithdrawal") < get_stage_time(t, "SrcPublicWithdrawal")
    /\ get_stage_time(t, "SrcPublicWithdrawal") < get_stage_time(t, "SrcCancellation")
    /\ get_stage_time(t, "SrcCancellation") < get_stage_time(t, "SrcPublicCancellation")
    /\ get_stage_time(t, "DstWithdrawal") < get_stage_time(t, "DstPublicWithdrawal")
    /\ get_stage_time(t, "DstPublicWithdrawal") < get_stage_time(t, "DstCancellation")

\* the offsets of a schedule are strictly increasing on both chain sides
OffsetsIncreasing(t) ==
    /\ get(t, "SrcWithdrawal") < get(t, "SrcPublicWithdrawal")
    /\ get(t, "SrcPublicWithdrawal") < get(t, "SrcCancellation")
    /\ get(t, "SrcCancellation") < get(t, "SrcPublicCancellation")
    /\ get(t, "DstWithdrawal") < get(t, "DstPublicWithdrawal")
    /\ get(t, "DstPublicWithdrawal") < get(t, "DstCancellation")

\* C21: every stored escrow's Immutables are the values written at its
\* creation (no step changes them) and satisfy validate(): order_hash and
\* hashlock non-empty, amount > 0, safety_deposit > 0, deployed_at # 0 and
\* strictly increasing offsets on each side, so that the stage times of every
\* record are strictly ordered: withdrawal < public withdrawal < cancellation
\* (< public cancellation on the source side).
C21_StoredTermsValid ==
    [][ /\ \A id \in DOMAIN escrows :
               /\ id \in DOMAIN escrows'
               /\ escrows'[id].escrow_info.immutables = ImmutablesOf(id)
        /\ \A id \in DOMAIN escrows' :
               LET immutables == escrows'[id].escrow_info.immutables IN
               /\ id \notin DOMAIN escrows => immutables = TermsOf(last')
               /\ Immutables_validate(immutables)
               /\ immutables.order_hash # ""
               /\ immutables.hashlock # ""
               /\ immutables.amount > 0
               /\ immutables.safety_deposit > 0
               /\ deployed_at(immutables.timelocks) # 0
               /\ OffsetsIncreasing(immutables.timelocks)
               /\ StageTimesOrdered(immutables.timelocks) ]_vars

\* two escrows are stored, one of them deactivated by a terminal operation
\* at a later block, while creations with malformed terms were refused
C21_Witness ==
    /\ escrow_counter = 2
    /\ \E id \in DOMAIN escrows : ~ IsActive(id)
    /\ now > TimeAt(0)
    /\ last.op \in TerminalOps
    /\ last.result = "Ok"

\* ------------------------------------------------------------------------
\* Functions of state.rs applied alone: the arguments are drawn by the
\* initial state, one step applies the function and records what it returns
\* ------------------------------------------------------------------------
\* the contract is not running: nothing is stored and no call is made
Standalone ==
    /\ escrows = << >>
    /\ escrow_counter = 0
    /\ escrow_by_hash = << >>
    /\ escrow_addresses = {}
    /\ creation_requests = << >>
    /\ rescue_delay = 0
    /\ now = TimeAt(0)
    /\ last = NoCall
    /\ successes = [id \in EscrowIds |-> 0]
    /\ pending = NoPending

Offsets == 0..MaxOffset

\* the arguments of PackedTimelocks::new
ScheduleArgs(deployed, src, dst) ==
    [deployed_at |-> deployed,
     src_withdrawal |-> src[1], src_public_withdrawal |-> src[2],
     src_cancellation |-> src[3], src_public_cancellation |-> src[4],
     dst_withdrawal |-> dst[1], dst_public_withdrawal |-> dst[2],
     dst_cancellation |-> dst[3]]

NewFrom(args) ==
    PackedTimelocks_new(args.deployed_at, args.src_withdrawal,
                        args.src_public_withdrawal, args.src_cancellation,
                        args.src_public_cancellation, args.dst_withdrawal,
                        args.dst_public_withdrawal, args.dst_cancellation)

\* the offset given to PackedTimelocks::new for a stage
OffsetArg(args, stage) ==
    CASE stage = "SrcWithdrawal" -> args.src_withdrawal
      [] stage = "SrcPublicWithdrawal" -> args.src_public_withdrawal
      [] stage = "SrcCancellation" -> args.src_cancellation
      [] stage = "SrcPublicCancellation" -> args.src_public_cancellation
      [] stage = "DstWithdrawal" -> args.dst_withdrawal
      [] stage = "DstPublicWithdrawal" -> args.dst_public_withdrawal
      [] stage = "DstCancellation" -> args.dst_cancellation

\* every schedule with deployed_at 0 or 1000 and offsets up to MaxOffset
ValidateArgs ==
    { ScheduleArgs(d, <<a, b, c, e>>, <<f, g, h>>) :
        d \in {0, TimeAt(0)}, a \in Offsets, b \in Offsets, c \in Offsets,
        e \in Offsets, f \in Offsets, g \in Offsets, h \in Offsets }

InitValidate ==
    /\ Standalone
    /\ probe \in { [fn |-> "args", args |-> args] : args \in ValidateArgs }

\* PackedTimelocks::new(..).validate()
Validate ==
    /\ probe.fn = "args"
    /\ probe' = [fn |-> "validate", args |-> probe.args,
                 result |-> PackedTimelocks_validate(NewFrom(probe.args))]
    /\ UNCHANGED << storage, now, last, successes, pending >>

NextValidate == Validate

SpecValidate == InitValidate /\ [][NextValidate]_vars

\* C22: for every packed schedule, validate() succeeds if and only if
\* deployed_at # 0 and src_withdrawal < src_public_withdrawal <
\* src_cancellation < src_public_cancellation and dst_withdrawal <
\* dst_public_withdrawal < dst_cancellation; a violation on either side alone
\* (equal adjacent offsets included) makes it fail.
C22_ValidateIff ==
    probe.fn = "validate"
    => LET a == probe.args
           src_ok == /\ a.src_withdrawal < a.src_public_withdrawal
                     /\ a.src_public_withdrawal < a.src_cancellation
                     /\ a.src_cancellation < a.src_public_cancellation
           dst_ok == /\ a.dst_withdrawal < a.dst_public_withdrawal
                     /\ a.dst_public_withdrawal < a.dst_cancellation
       IN  /\ probe.result <=> (a.deployed_at # 0 /\ src_ok /\ dst_ok)
           /\ ~ src_ok => ~ probe.result
           /\ ~ dst_ok => ~ probe.result

\* validate() refused a schedule deployed at 1000 whose source offsets are
\* strictly increasing and whose destination side has two equal offsets
C22_Witness ==
    /\ probe.fn = "validate"
    /\ ~ probe.result
    /\ probe.args.deployed_at # 0
    /\ probe.args.src_withdrawal < probe.args.src_public_withdrawal
    /\ probe.args.src_public_withdrawal < probe.args.src_cancellation
    /\ probe.args.src_cancellation < probe.args.src_public_cancellation
    /\ probe.args.dst_withdrawal < probe.args.dst_public_withdrawal
    /\ probe.args.dst_public_withdrawal = probe.args.dst_cancellation

\* ------------------------------------------------------------------------
\* is_within_stage and get_current_stage applied alone
\* ------------------------------------------------------------------------
\* destination offsets: all equal, increasing, decreasing, late
DstOffsetTriples ==
    { <<0, 0, 0>>, <<0, 1, 2>>, <<1, 2, 3>>, <<2, 1, 0>>, <<3, 3, 3>> }

\* schedules deployed at 1000 with every choice of source offsets
StageArgs ==
    { ScheduleArgs(TimeAt(0), <<a, b, c, e>>, dst) :
        a \in Offsets, b \in Offsets, c \in Offsets, e \in Offsets,
        dst \in DstOffsetTriples }

\* the second before each hour after 1000 and the hour itself
StageTimes ==
    { TimeAt(0) + k * SecondsPerHour - 1 : k \in Offsets }
        \cup { TimeAt(0) + k * SecondsPerHour : k \in Offsets }

InitStages ==
    /\ Standalone
    /\ probe \in { [fn |-> "args", args |-> args, current_time |-> t] :
                        args \in StageArgs, t \in StageTimes }

\* is_within_stage(current_time, stage) of the packed schedule, for each stage
IsWithinStage ==
    /\ probe.fn = "args"
    /\ LET t == NewFrom(probe.args) IN
       probe' = [fn |-> "is_within_stage", args |-> probe.args,
                 current_time |-> probe.current_time,
                 valid |-> PackedTimelocks_validate(t),
                 result |-> [stage \in { AllStages[i] : i \in 1..Len(AllStages) } |->
                                is_within_stage(t, probe.current_time, stage)]]
    /\ UNCHANGED << storage, now, last, successes, pending >>

\* get_current_stage(current_time) of the packed schedule
GetCurrentStage ==
    /\ probe.fn = "args"
    /\ probe' = [fn |-> "get_current_stage", args |-> probe.args,
                 current_time |-> probe.current_time,
                 result |-> get_current_stage(NewFrom(probe.args), probe.current_time)]
    /\ UNCHANGED << storage, now, last, successes, pending >>

NextStages == IsWithinStage \/ GetCurrentStage

SpecStages == InitStages /\ [][NextStages]_vars

StageSet == { AllStages[i] : i \in 1..Len(AllStages) }

\* the stage time that follows from the arguments given to new()
StageTimeArg(args, stage) == args.deployed_at + OffsetArg(args, stage) * 3600

\* C23: for every schedule, stage and time now, is_within_stage(now, stage)
\* is true if and only if now >= deployed_at + get(stage) * 3600: false at
\* stage_time - 1 and true at exactly stage_time.
C23_WithinStageIff ==
    probe.fn = "is_within_stage"
    => \A stage \in StageSet :
           /\ probe.result[stage]
                  <=> probe.current_time >= StageTimeArg(probe.args, stage)
           /\ probe.current_time = StageTimeArg(probe.args, stage) - 1
                  => ~ probe.result[stage]
           /\ probe.current_time = StageTimeArg(probe.args, stage)
                  => probe.result[stage]

\* at 4599 the source withdrawal with offset 1 has not started, and the
\* source cancellation with offset 0 has; its stage time 1000 is long past
C23_Witness ==
    /\ probe.fn = "is_within_stage"
    /\ probe.args.src_withdrawal = 1
    /\ probe.current_time = StageTimeArg(probe.args, "SrcWithdrawal") - 1
    /\ ~ probe.result["SrcWithdrawal"]
    /\ probe.args.src_cancellation = 0
    /\ probe.result["SrcCancellation"]

\* the stages of the same chain side that come before a stage
EarlierStages(stage) ==
    CASE stage = "SrcWithdrawal" -> {}
      [] stage = "SrcPublicWithdrawal" -> {"SrcWithdrawal"}
      [] stage = "SrcCancellation" -> {"SrcWithdrawal", "SrcPublicWithdrawal"}
      [] stage = "SrcPublicCancellation" ->
             {"SrcWithdrawal", "SrcPublicWithdrawal", "SrcCancellation"}
      [] stage = "DstWithdrawal" -> {}
      [] stage = "DstPublicWithdrawal" -> {"DstWithdrawal"}
      [] stage = "DstCancellation" -> {"DstWithdrawal", "DstPublicWithdrawal"}

\* C24: stage thresholds are cumulative, not windows: for every schedule that
\* passes validate() and every time now, if is_within_stage(now, S) holds for
\* a stage S then it holds for every earlier stage of the same chain side.
C24_StagesCumulative ==
    (probe.fn = "is_within_stage" /\ probe.valid)
    => \A stage \in StageSet :
           probe.result[stage]
           => \A earlier \in EarlierStages(stage) : probe.result[earlier]

\* a valid schedule two hours after deployment: the source cancellation has
\* started, an hour or more after the two stages before it, and the last
\* stage of each side has not
C24_Witness ==
    /\ probe.fn = "is_within_stage"
    /\ probe.valid
    /\ probe.result["SrcCancellation"]
    /\ probe.result["SrcPublicWithdrawal"]
    /\ probe.result["SrcWithdrawal"]
    /\ probe.current_time
           >= StageTimeArg(probe.args, "SrcWithdrawal") + 2 * 3600
    /\ ~ probe.result["SrcPublicCancellation"]
    /\ probe.result["DstPublicWithdrawal"]
    /\ ~ probe.result["DstCancellation"]

\* the position of a stage in the order in which get_current_stage tries them
StageRank(stage) ==
    CASE stage = "SrcWithdrawal" -> 1
      [] stage = "SrcPublicWithdrawal" -> 2
      [] stage = "SrcCancellation" -> 3
      [] stage = "SrcPublicCancellation" -> 4
      [] stage = "DstWithdrawal" -> 5
      [] stage = "DstPublicWithdrawal" -> 6
      [] stage = "DstCancellation" -> 7

\* C30: get_current_stage(now) returns None exactly when now is before the
\* stage time of all seven stages, and otherwise returns the first stage, in
\* the order SrcWithdrawal, SrcPublicWithdrawal, SrcCancellation,
\* SrcPublicCancellation, DstWithdrawal, DstPublicWithdrawal,
\* DstCancellation, whose stage time is <= now; so it keeps returning
\* SrcWithdrawal once that stage has started, however late now is.
C30_CurrentStageIsFirstStarted ==
    probe.fn = "get_current_stage"
    => LET started(stage) == StageTimeArg(probe.args, stage) <= probe.current_time
       IN  /\ probe.result = << >> <=> \A stage \in StageSet : ~ started(stage)
           /\ probe.result # << >>
              => /\ Len(probe.result) = 1
                 /\ probe.result[1] \in StageSet
                 /\ started(probe.result[1])
                 /\ \A stage \in StageSet :
                        StageRank(stage) < StageRank(probe.result[1])
                        => ~ started(stage)
           /\ started("SrcWithdrawal") => probe.result = << "SrcWithdrawal" >>

\* three hours after deployment every source stage of a valid schedule has
\* started and SrcWithdrawal, started first, is still the stage returned
C30_Witness ==
    /\ probe.fn = "get_current_stage"
    /\ probe.result = << "SrcWithdrawal" >>
    /\ probe.args.src_withdrawal < probe.args.src_public_withdrawal
    /\ probe.args.src_public_withdrawal < probe.args.src_cancellation
    /\ probe.args.src_cancellation < probe.args.src_public_cancellation
    /\ StageTimeArg(probe.args, "SrcPublicCancellation") <= probe.current_time

\* ------------------------------------------------------------------------
\* PackedTimelocks::new, deployed_at and get applied alone
\* ------------------------------------------------------------------------
\* u32 values at the byte boundaries, up to the largest the checker's
\* integers hold
PackDeployedAts ==
    { 0, 1, 255, 256, 65535, 65536, 16777215, 16777216, 2147483647 }

\* u8 values: no bit, the alternating bit patterns, every bit
PackOffsets == { 0, 85, 170, 255 }

\* schedules of wide values; two of the seven offsets are taken only from
\* the two ends of the u8 range
PackArgs ==
    { ScheduleArgs(d, <<a, b, c, e>>, <<f, g, h>>) :
        d \in PackDeployedAts, a \in PackOffsets, b \in PackOffsets,
        c \in PackOffsets, e \in {0, 255}, f \in PackOffsets,
        g \in {0, 255}, h \in PackOffsets }

InitPack ==
    /\ Standalone
    /\ probe \in { [fn |-> "args", args |-> args] : args \in PackArgs }

\* PackedTimelocks::new(..), then deployed_at() and get(stage) of each stage
Pack ==
    /\ probe.fn = "args"
    /\ LET t == NewFrom(probe.args) IN
       probe' = [fn |-> "new", args |-> probe.args,
                 deployed_at |-> deployed_at(t),
                 get |-> [stage \in StageSet |-> get(t, stage)]]
    /\ UNCHANGED << storage, now, last, successes, pending >>

NextPack == Pack

SpecPack == InitPack /\ [][NextPack]_vars

\* C29: packing round-trips: for every deployed_at in the 32-bit range and
\* every seven 8-bit offsets, PackedTimelocks::new(..) followed by
\* deployed_at() and get(stage) returns exactly the supplied deployed_at and
\* the supplied offset of each of the seven stages; no field disturbs another.
C29_PackRoundTrip ==
    probe.fn = "new"
    => /\ probe.deployed_at = probe.args.deployed_at
       /\ \A stage \in StageSet : probe.get[stage] = OffsetArg(probe.args, stage)

\* a schedule with a deployed_at that fills the low 31 bits, next to a zero
\* source withdrawal offset, and adjacent offsets of complementary bits
C29_Witness ==
    /\ probe.fn = "new"
    /\ probe.args.deployed_at = 2147483647
    /\ probe.args.src_withdrawal = 0
    /\ probe.get["SrcWithdrawal"] = 0
    /\ probe.args.src_public_withdrawal = 85
    /\ probe.args.src_cancellation = 170
    /\ probe.get["SrcPublicWithdrawal"] = 85
    /\ probe.get["SrcCancellation"] = 170
    /\ probe.args.dst_withdrawal = 255
    /\ probe.args.dst_public_withdrawal = 0
    /\ probe.get["DstPublicWithdrawal"] = 0

\* ------------------------------------------------------------------------
\* Immutables::hash applied alone
\* ------------------------------------------------------------------------
\* Immutables that differ in the order hash, the hashlock, the amount, the
\* safety deposit or the schedule, with every other field equal
HashFixtures ==
    { [CreationImmutables(BaseParams, TimeAt(0))
           EXCEPT !.order_hash = o, !.hashlock = h, !.amount = a,
                  !.safety_deposit = d, !.timelocks = t] :
        o \in {"order_1", "order_12"}, h \in {"abc", "2abc"},
        a \in {1, 12}, d \in {3, 23},
        t \in { PackedTimelocks_new(TimeAt(0), 1, 2, 3, 4, 1, 2, 3),
                PackedTimelocks_new(TimeAt(0), 1, 2, 3, 5, 1, 2, 3) } }

InitHash ==
    /\ Standalone
    /\ probe \in { [fn |-> "args", left |-> l, right |-> r] :
                        l \in HashFixtures, r \in HashFixtures }

\* hash() of two Immutables
Hash ==
    /\ probe.fn = "args"
    /\ probe' = [fn |-> "hash", left |-> probe.left, right |-> probe.right,
                 left_hash |-> Immutables_hash(probe.left),
                 right_hash |-> Immutables_hash(probe.right)]
    /\ UNCHANGED << storage, now, last, successes, pending >>

NextHash == Hash

SpecHash == InitHash /\ [][NextHash]_vars

\* C25: Immutables.hash() is deterministic (equal Immutables give equal
\* digests) and any two Immutables that differ in at least one field
\* (order_hash, hashlock, maker, taker, token, amount, safety_deposit, or
\* either packed schedule word) give distinct digests; the digest is taken
\* over the fields' string forms concatenated in fixed order without separators.
C25_HashDistinguishesTerms ==
    probe.fn = "hash"
    => /\ probe.left = probe.right => probe.left_hash = probe.right_hash
       /\ probe.left # probe.right => probe.left_hash # probe.right_hash

\* ------------------------------------------------------------------------
\* Creation requests
\* ------------------------------------------------------------------------
\* the key of the creation request a factory call is about
KeyOf(response) ==
    RequestKey(ParamsOf(response).order_hash, ParamsOf(response).hashlock)

\* C26: CancelCreationRequest succeeds, setting the request's status to
\* Cancelled, only when the caller is the registry owner and the request
\* exists with status Pending; a non-owner fails with Unauthorized even when
\* the request does not exist, the owner fails with NotFound for an absent
\* request, and a request with status Created cannot be cancelled and keeps
\* status Created.
C26_CancelOnlyPendingByOwner ==
    [][ last'.op = "CancelCreationRequest"
        => LET key == KeyOf(last') IN
           /\ last'.result = "Ok"
              => /\ last'.sender = config.owner
                 /\ key \in DOMAIN creation_requests
                 /\ creation_requests[key].status = "Pending"
                 /\ creation_requests'[key].status = "Cancelled"
           /\ last'.sender # config.owner => last'.result = "Unauthorized"
           /\ (last'.sender = config.owner /\ key \notin DOMAIN creation_requests)
              => last'.result = "EscrowNotFound"
           /\ (key \in DOMAIN creation_requests
                  /\ creation_requests[key].status = "Created")
              => /\ last'.result # "Ok"
                 /\ creation_requests'[key].status = "Created"
           /\ last'.result # "Ok" => UNCHANGED storage ]_vars

\* the owner asked to cancel a request whose escrow was created: refused,
\* and the request still has status Created
C26_Witness ==
    /\ last.op = "CancelCreationRequest"
    /\ last.sender = config.owner
    /\ KeyOf(last) \in DOMAIN creation_requests
    /\ creation_requests[KeyOf(last)].status = "Created"
    /\ last.result = "InvalidImmutables"

FirstFailingCheck(op, sender, id, secret) ==
    IF id \notin DOMAIN escrows THEN {"EscrowNotFound"}
    ELSE IF ~ RoleMatches(op, id) THEN InvalidStateErrors
    ELSE IF ~ CallerAuthorized(op, sender, id) THEN UnauthorizedErrors
    ELSE IF ~ IsActive(id) THEN InvalidStateErrors
    ELSE IF op \in WithdrawOps /\ ~ SecretMatches(secret, id) THEN {"InvalidSecret"}
    ELSE IF now < StageTimeOfOp(op, id) THEN {"TimelockNotExpired"}
    ELSE {"Ok"}

\* C28: every role-specific terminal operation evaluates its checks in the
\* fixed order existence (NotFound), role (InvalidState), caller
\* authorization (Unauthorized), is_active (InvalidState), then secret
\* (Withdraw only), then timelock, and returns the error of the first failing
\* check: an unauthorized caller on an Inactive record gets Unauthorized, and
\* the taker's Withdraw with a wrong secret before the withdrawal stage time
\* gets SecretMismatch rather than TimelockNotElapsed.
C28_CheckOrder ==
    [][ last'.op \in StageGatedOps
        => /\ last'.result
                 \in FirstFailingCheck(last'.op, last'.sender, last'.escrow_id,
                                       last'.secret)
           /\ (/\ last'.escrow_id \in DOMAIN escrows
               /\ RoleMatches(last'.op, last'.escrow_id)
               /\ ~ CallerAuthorized(last'.op, last'.sender, last'.escrow_id)
               /\ ~ IsActive(last'.escrow_id))
              => last'.result \in UnauthorizedErrors
           /\ (/\ last'.op \in WithdrawOps
               /\ last'.escrow_id \in DOMAIN escrows
               /\ RoleMatches(last'.op, last'.escrow_id)
               /\ CallerAuthorized(last'.op, last'.sender, last'.escrow_id)
               /\ IsActive(last'.escrow_id)
               /\ ~ SecretMatches(last'.secret, last'.escrow_id)
               /\ now < StageTimeOfOp(last'.op, last'.escrow_id))
              => last'.result = "InvalidSecret" ]_vars

\* the taker's WithdrawSrc on an active Source escrow with a wrong secret,
\* before the withdrawal stage time: refused for the secret
C28_Witness ==
    /\ last.op = "WithdrawSrc"
    /\ last.escrow_id \in DOMAIN escrows
    /\ TypeOf(last.escrow_id) = "Source"
    /\ last.sender = ImmutablesOf(last.escrow_id).taker
    /\ IsActive(last.escrow_id)
    /\ ~ SecretMatches(last.secret, last.escrow_id)
    /\ now < StageTimeOfOp("WithdrawSrc", last.escrow_id)
    /\ last.result = "InvalidSecret"

\* ------------------------------------------------------------------------
\* Post-interaction creation
\* ------------------------------------------------------------------------
\* C33: HandlePostInteraction always creates a Source escrow: on success the
\* new record has role Source, is Active, carries a DestinationComplement and
\* its creation request is Created; it succeeds only when the funds sent
\* equal exactly amount + safety_deposit.
C33_PostInteractionCreatesSource ==
    [][ (last'.op = "HandlePostInteraction" /\ last'.result = "Ok")
        => /\ last'.escrow_id \in DOMAIN escrows' \ DOMAIN escrows
           /\ escrows'[last'.escrow_id].escrow_info.escrow_type = "Source"
           /\ escrows'[last'.escrow_id].escrow_info.is_active
           /\ escrows'[last'.escrow_id].escrow_info.dst_complement # << >>
           /\ KeyOf(last') \in DOMAIN creation_requests'
           /\ creation_requests'[KeyOf(last')].status = "Created"
           /\ FundsOf(last')
                  = ParamsOf(last').amount + ParamsOf(last').safety_deposit ]_vars

\* a HandlePostInteraction sent with amount + safety_deposit created an
\* active Source escrow
C33_Witness ==
    /\ last.op = "HandlePostInteraction"
    /\ last.result = "Ok"
    /\ FundsOf(last) = 1100
    /\ TypeOf(last.escrow_id) = "Source"
    /\ IsActive(last.escrow_id)

\* ------------------------------------------------------------------------
\* Frame of a terminal operation
\* ------------------------------------------------------------------------
\* C34: a successful terminal operation changes only the is_active flag of
\* the target record: that record's immutables, role, dst_complement,
\* created_at, balance and native_balance (which keep their creation values
\* and are not zeroed after the payout), every other escrow record, the id
\* counter and the config are left unchanged.
C34_TerminalChangesOnlyIsActive ==
    [][ (last'.op \in TerminalOps /\ last'.result = "Ok")
        => LET id == last'.escrow_id IN
           /\ id \in DOMAIN escrows
           /\ DOMAIN escrows' = DOMAIN escrows
           /\ IsActive(id)
           /\ ~ escrows'[id].escrow_info.is_active
           /\ escrows'[id].escrow_info.immutables = escrows[id].escrow_info.immutables
           /\ escrows'[id].escrow_info.escrow_type = escrows[id].escrow_info.escrow_type
           /\ escrows'[id].escrow_info.dst_complement
                  = escrows[id].escrow_info.dst_complement
           /\ escrows'[id].escrow_info.created_at = escrows[id].escrow_info.created_at
           /\ escrows'[id].balance = escrows[id].balance
           /\ escrows'[id].balance = escrows[id].escrow_info.immutables.amount
           /\ escrows'[id].native_balance = escrows[id].native_balance
           /\ escrows'[id].native_balance
                  = escrows[id].escrow_info.immutables.safety_deposit
           /\ \A other \in DOMAIN escrows \ {id} : escrows'[other] = escrows[other]
           /\ UNCHANGED << escrow_counter, escrow_by_hash, escrow_addresses,
                           creation_requests, rescue_delay >> ]_vars

\* a terminal operation paid out escrow 1 while escrow 2 stays active: the
\* record of escrow 1 still shows the balance and the deposit it was created with
C34_Witness ==
    /\ last.op \in TerminalOps
    /\ last.result = "Ok"
    /\ Len(last.messages) = 2
    /\ escrows[last.escrow_id].balance > 0
    /\ escrows[last.escrow_id].native_balance > 0
    /\ ~ IsActive(last.escrow_id)
    /\ \E other \in DOMAIN escrows : other # last.escrow_id /\ IsActive(other)

CancellationStarted(id) ==
    now >= StageTimeOfOp(IF TypeOf(id) = "Source" THEN "CancelSrc" ELSE "CancelDst", id)

\* C36: Withdraw never expires: on an Active escrow the taker's Withdraw with
\* the correct secret succeeds at every time >= the withdrawal stage time,
\* including at or after the cancellation and public-cancellation stage
\* times; from the cancellation stage time on, both Withdraw and Cancel by
\* the taker succeed on an Active escrow, and the one executed first decides
\* the outcome.
C36_WithdrawNeverExpires ==
    [][ LET id == last'.escrow_id
            ready == /\ id \in DOMAIN escrows
                     /\ RoleMatches(last'.op, id)
                     /\ last'.sender = ImmutablesOf(id).taker
                     /\ IsActive(id)
        IN  /\ (/\ last'.op \in WithdrawOps
                /\ ready
                /\ SecretMatches(last'.secret, id)
                /\ now >= StageTimeOfOp(last'.op, id))
               => last'.result = "Ok"
            /\ (last'.op \in CancelOps /\ ready /\ CancellationStarted(id))
               => last'.result = "Ok"
            /\ (last'.op \in WithdrawOps \cup CancelOps /\ last'.result = "Ok")
               => ~ escrows'[id].escrow_info.is_active ]_vars

\* the taker withdrew from a Source escrow with the secret when the public
\* cancellation stage, the last one, had started
C36_Witness ==
    /\ last.op = "WithdrawSrc"
    /\ last.result = "Ok"
    /\ now >= StageTimeOfOp("PublicCancelSrc", last.escrow_id)
    /\ CancellationStarted(last.escrow_id)

\* ------------------------------------------------------------------------
\* Rescue before the stages
\* ------------------------------------------------------------------------
\* the time from which Rescue is allowed on an escrow
RescueStartOf(id) == deployed_at(ImmutablesOf(id).timelocks) + rescue_delay

\* C40: the time gate of Rescue depends only on deployed_at and the
\* configured rescue_delay, which nothing relates to the stage offsets: the
\* taker's Rescue on an Active escrow succeeds from deployed_at + rescue_delay
\* on, whatever the stage times, and with rescue_delay < withdrawal offset *
\* 3600 it succeeds at a time at which Withdraw, PublicWithdraw, Cancel and
\* PublicCancel all still fail with TimelockNotElapsed.
C40_RescueIgnoresStages ==
    [][ LET id == last'.escrow_id IN
        /\ (/\ last'.op = "Rescue"
            /\ id \in DOMAIN escrows
            /\ last'.sender = ImmutablesOf(id).taker
            /\ IsActive(id)
            /\ now >= RescueStartOf(id))
           => last'.result = "Ok"
        /\ (/\ last'.op \in StageGatedOps
            /\ id \in DOMAIN escrows
            /\ RoleMatches(last'.op, id)
            /\ CallerAuthorized(last'.op, last'.sender, id)
            /\ IsActive(id)
            /\ last'.op \in WithdrawOps => SecretMatches(last'.secret, id)
            /\ now < StageTimeOfOp(last'.op, id))
           => last'.result = "TimelockNotExpired" ]_vars

\* with a rescue delay shorter than the withdrawal offset the taker rescued
\* an escrow before its withdrawal stage time, the earliest of its stage times
C40_Witness ==
    /\ last.op = "Rescue"
    /\ last.result = "Ok"
    /\ rescue_delay
          < get(ImmutablesOf(last.escrow_id).timelocks,
                get_withdrawal_stage(TypeOf(last.escrow_id))) * 3600
    /\ \A op \in StageGatedOps :
           RoleMatches(op, last.escrow_id) => now < StageTimeOfOp(op, last.escrow_id)

\* ------------------------------------------------------------------------
\* The taker holds the access token
\* ------------------------------------------------------------------------
\* the terms of a Source escrow whose taker is the access-token holder
HolderParams == [BaseParams EXCEPT !.taker = config.access_token]

\* CreateEscrow for those terms
CreateEscrowForHolder ==
    /\ escrow_counter < MaxEscrows
    /\ now <= TimeAt(MaxCreateTick)
    /\ \E salt \in Salts :
          execute_create_escrow(config.owner, HolderParams, salt, CreationFee)

NextHolder ==
    \/ Tick
    \/ CreateEscrowForHolder
    \/ WithdrawSrc
    \/ CancelSrc
    \/ PublicWithdrawSrc
    \/ PublicCancelSrc
    \/ Rescue

SpecHolder == Init /\ [][NextHolder]_vars

\* C37: on a Source escrow, a transfer of the main balance to the taker is
\* issued only by WithdrawSrc with a secret hashing to the hashlock, or by
\* Rescue at now >= deployed_at + rescue_delay; no other operation, for any
\* configuration of maker, taker and access-token holder (taker =
\* access-token holder included), pays the main balance to the taker without
\* the secret.
C37_BalanceToTakerNeedsSecretOrRescue ==
    [][ \A i \in 1..Len(last'.messages) :
            LET id == last'.escrow_id IN
            (/\ TypeOf(id) = "Source"
             /\ IsBalanceTransfer(last'.messages[i], id, ImmutablesOf(id).taker))
            => \/ last'.op = "WithdrawSrc" /\ SecretMatches(last'.secret, id)
               \/ last'.op = "Rescue" /\ now >= RescueStartOf(id) ]_vars

\* ------------------------------------------------------------------------
\* Creations that share order_hash and hashlock
\* ------------------------------------------------------------------------
\* two salts, and two sets of terms that differ in the amount only
SaltChoices == {"salt_a", "salt_b"}
SameKeyParams == { BaseParams, [BaseParams EXCEPT !.amount = 500] }

\* CreateEscrow with a salt chosen by the caller
CreateEscrowWithSalt ==
    /\ escrow_counter < MaxEscrows
    /\ now <= TimeAt(MaxCreateTick)
    /\ \E params \in SameKeyParams, salt \in SaltChoices :
          execute_create_escrow(config.owner, params, salt, CreationFee)

NextSalts ==
    \/ Tick
    \/ CreateEscrowWithSalt
    \/ HandlePostInteraction
    \/ CancelCreationRequest
    \/ WithdrawSrc
    \/ Rescue

SpecSalts == Init /\ [][NextSalts]_vars

\* C39: after any sequence of successful creations, every stored escrow has
\* its own creation request: the request stored under the escrow's
\* (order_hash, hashlock) key carries exactly that escrow's creation
\* parameters, and no successful creation overwrites the request of a
\* different, already created escrow.
C39_EveryEscrowHasItsRequest ==
    \A id \in DOMAIN escrows :
        LET key == RequestKey(ImmutablesOf(id).order_hash, ImmutablesOf(id).hashlock)
        IN  /\ key \in DOMAIN creation_requests
            /\ creation_requests[key].params.escrow_type = TypeOf(id)
            /\ CreationImmutables(creation_requests[key].params,
                                  escrows[id].escrow_info.created_at)
                   = ImmutablesOf(id)

\* ------------------------------------------------------------------------
\* deployed_at of a new escrow: the block time as u32
\* ------------------------------------------------------------------------
\* env.block.time.seconds(), a u64, given by its high and low 32 bits
BlockSeconds(high, low) ==
    LET l == U32AsU64(low)
        h == U32AsU64(high)
    IN  << l[1], l[2], l[3], l[4], h[1], h[2], h[3], h[4] >>

\* w as u32
U64AsU32(w) == w[1] + 256 * w[2] + 65536 * w[3] + 16777216 * w[4]

\* block times below 2^32, equal to it and above it
BlockTimes ==
    { [high |-> h, low |-> l] : h \in {0, 1, 2}, l \in {0, 1000, 2146565647} }

\* requests whose schedule carries a deployed_at of its own
DeployParams ==
    { [BaseParams EXCEPT !.timelocks = NewFrom(ScheduleArgs(d, src, dst))] :
        d \in {7, 1000},
        src \in { <<1, 2, 3, 4>>, <<0, 1, 2, 255>>, <<2, 2, 2, 2>> },
        dst \in { <<1, 2, 3>>, <<0, 1, 255>>, <<3, 2, 1>> } }

InitDeployedAt ==
    /\ Standalone
    /\ probe \in { [fn |-> "args", params |-> params, block_time |-> t] :
                        params \in DeployParams, t \in BlockTimes }

\* the Immutables a creation builds at a block time, and their validation
BuildImmutables ==
    /\ probe.fn = "args"
    /\ LET seconds == BlockSeconds(probe.block_time.high, probe.block_time.low)
           immutables == CreationImmutables(probe.params, U64AsU32(seconds))
       IN  probe' = [fn |-> "immutables", params |-> probe.params,
                     block_time |-> probe.block_time,
                     immutables |-> immutables,
                     valid |-> Immutables_validate(immutables)]
    /\ UNCHANGED << storage, now, last, successes, pending >>

NextDeployedAt == BuildImmutables

SpecDeployedAt == InitDeployedAt /\ [][NextDeployedAt]_vars

\* x < high * 2^32 + low, for a time x that the checker's integers hold
BeforeBlockTime(x, block_time) ==
    (x - block_time.low) \div 65536 < 65536 * block_time.high

\* C38: Create ignores the deployed_at carried in the request's schedule and
\* stores deployed_at equal to the creation block time in seconds, keeping
\* the seven offsets unchanged; the value is stored in 32 bits, so the stored
\* deployed_at is the block time modulo 2^32, and for every created escrow
\* each stage time is >= the creation block time only when that block time
\* is below 2^32.
C38_DeployedAtIsBlockTimeMod32 ==
    probe.fn = "immutables"
    => LET t == probe.immutables.timelocks
           below == probe.block_time.high = 0
       IN  /\ deployed_at(t) = probe.block_time.low
           /\ \A stage \in StageSet : get(t, stage) = get(probe.params.timelocks, stage)
           /\ probe.valid
              => \A stage \in StageSet :
                     ~ BeforeBlockTime(get_stage_time(t, stage), probe.block_time)
                         <=> below

\* a request carrying deployed_at 7 is accepted at block time 2^32 + 1000:
\* the stored deployed_at is 1000 and every stage time is before the block time
C38_Witness ==
    /\ probe.fn = "immutables"
    /\ probe.valid
    /\ deployed_at(probe.params.timelocks) = 7
    /\ probe.block_time = [high |-> 1, low |-> 1000]
    /\ deployed_at(probe.immutables.timelocks) = 1000

\* ------------------------------------------------------------------------
\* A terminal operation run as two steps: load and check, then pay and save
\* ------------------------------------------------------------------------
\* the call has passed its checks on the copy it loaded; the copy and the
\* transfers built from it wait for the second step
Hold(call, escrow_state, messages) ==
    /\ pending' = Append(pending, [call |-> call, escrow_state |-> escrow_state,
                                   messages |-> messages])
    /\ last' = NoCall
    /\ UNCHANGED << storage, now, successes, probe >>

\* the first half of execute_withdraw_src without the is_active check
withdraw_src_load_unchecked(sender, escrow_id, secret) ==
    LET call == Call("WithdrawSrc", sender, escrow_id, secret) IN
    IF escrow_id \notin DOMAIN escrows THEN Err(call, "EscrowNotFound")
    ELSE
    LET escrow_state == escrows[escrow_id]
        immutables == escrow_state.escrow_info.immutables
        stage == get_withdrawal_stage(escrow_state.escrow_info.escrow_type)
    IN
    IF ~ is_source(escrow_state.escrow_info.escrow_type)
        THEN Err(call, "InvalidImmutables")
    ELSE IF sender # immutables.taker THEN Err(call, "OnlyTaker")
    ELSE IF Sha256Hex(secret) # immutables.hashlock THEN Err(call, "InvalidSecret")
    ELSE IF ~ is_within_stage(immutables.timelocks, now, stage)
        THEN Err(call, "TimelockNotExpired")
    ELSE Hold(call, escrow_state, BalanceMessages(escrow_state, immutables.taker)
                                  \o DepositMessages(escrow_state, sender))

\* the first half of execute_withdraw_src: ESCROWS.load, the checks, and the
\* transfer messages built from the loaded copy
withdraw_src_load(sender, escrow_id, secret) ==
    LET call == Call("WithdrawSrc", sender, escrow_id, secret) IN
    IF escrow_id \notin DOMAIN escrows THEN Err(call, "EscrowNotFound")
    ELSE
    LET escrow_state == escrows[escrow_id]
        immutables == escrow_state.escrow_info.immutables
        stage == get_withdrawal_stage(escrow_state.escrow_info.escrow_type)
    IN
    IF ~ is_source(escrow_state.escrow_info.escrow_type)
        THEN Err(call, "InvalidImmutables")
    ELSE IF sender # immutables.taker THEN Err(call, "OnlyTaker")
    ELSE IF ~ escrow_state.escrow_info.is_active THEN Err(call, "EscrowNotActive")
    ELSE IF Sha256Hex(secret) # immutables.hashlock THEN Err(call, "InvalidSecret")
    ELSE IF ~ is_within_stage(immutables.timelocks, now, stage)
        THEN Err(call, "TimelockNotExpired")
    ELSE Hold(call, escrow_state, BalanceMessages(escrow_state, immutables.taker)
                                  \o DepositMessages(escrow_state, sender))

\* the first half of execute_cancel_src
cancel_src_load(sender, escrow_id) ==
    LET call == Call("CancelSrc", sender, escrow_id, NoSecret) IN
    IF escrow_id \notin DOMAIN escrows THEN Err(call, "EscrowNotFound")
    ELSE
    LET escrow_state == escrows[escrow_id]
        immutables == escrow_state.escrow_info.immutables
        stage == get_cancellation_stage(escrow_state.escrow_info.escrow_type)
    IN
    IF ~ is_source(escrow_state.escrow_info.escrow_type)
        THEN Err(call, "InvalidImmutables")
    ELSE IF sender # immutables.taker THEN Err(call, "OnlyTaker")
    ELSE IF ~ escrow_state.escrow_info.is_active THEN Err(call, "EscrowNotActive")
    ELSE IF ~ is_within_stage(immutables.timelocks, now, stage)
        THEN Err(call, "TimelockNotExpired")
    ELSE Hold(call, escrow_state, BalanceMessages(escrow_state, immutables.maker)
                                  \o DepositMessages(escrow_state, sender))

\* the second half of a terminal operation: the loaded copy is saved with
\* is_active = false and the response carries the transfers
save_and_respond(i) ==
    LET held == pending[i]
        escrow_id == held.call.escrow_id
    IN  /\ escrows' = [escrows EXCEPT ![escrow_id] =
                           [held.escrow_state EXCEPT !.escrow_info.is_active = FALSE]]
        /\ last' = [op |-> held.call.op, sender |-> held.call.sender,
                    escrow_id |-> escrow_id, secret |-> held.call.secret,
                    request |-> held.call.request,
                    result |-> "Ok", messages |-> held.messages]
        /\ successes' = [successes EXCEPT ![escrow_id] = @ + 1]
        /\ pending' = SubSeq(pending, 1, i - 1) \o SubSeq(pending, i + 1, Len(pending))
        /\ UNCHANGED << escrow_counter, escrow_by_hash, escrow_addresses,
                        creation_requests, rescue_delay, now, probe >>

\* CreateEscrow of the escrow the callers compete for
CreateEscrowForRace ==
    /\ escrow_counter < MaxEscrows
    /\ now <= TimeAt(MaxCreateTick)
    /\ \E salt \in Salts :
          execute_create_escrow(config.owner, BaseParams, salt, CreationFee)

WithdrawSrcLoad ==
    /\ Len(pending) < MaxPending
    /\ \E sender \in Callers, escrow_id \in EscrowIds, secret \in Secrets :
          withdraw_src_load(sender, escrow_id, secret)

CancelSrcLoad ==
    /\ Len(pending) < MaxPending
    /\ \E sender \in Callers, escrow_id \in EscrowIds : cancel_src_load(sender, escrow_id)

SaveAndRespond == \E i \in 1..Len(pending) : save_and_respond(i)

NextTwoStep ==
    \/ Tick
    \/ CreateEscrowForRace
    \/ WithdrawSrcLoad
    \/ CancelSrcLoad
    \/ SaveAndRespond

SpecTwoStep == Init /\ [][NextTwoStep]_vars

\* C31: if a terminal operation is executed as two separately interleavable
\* steps (load and check is_active; then emit transfers, set is_active =
\* false and save), two concurrent callers on the same Active escrow can both
\* succeed and both issue transfers; a call whose load, check, mutation and
\* save are not interleaved with another call's save is a success only on an
\* escrow still Active in storage, so with atomic operations no interleaving
\* reaches two successes on one escrow.
C31_SecondSuccessOnlyByInterleaving ==
    [][ \A id \in DOMAIN escrows :
            successes'[id] # successes[id]
            => /\ successes'[id] = successes[id] + 1
               /\ \E i \in 1..Len(pending) :
                      /\ pending[i].call.escrow_id = id
                      /\ pending[i].escrow_state.escrow_info.is_active
                      /\ last'.messages = pending[i].messages
               /\ IsActive(id) <=> successes'[id] = 1
               /\ ~ escrows'[id].escrow_info.is_active ]_vars

\* two calls that both loaded the escrow while it was Active have both
\* succeeded: the second response carries the balance and the deposit again
C31_Witness ==
    /\ \E id \in DOMAIN escrows : successes[id] = 2
    /\ last.result = "Ok"
    /\ Len(last.messages) = 2
    /\ pending = << >>

\* ------------------------------------------------------------------------
\* Time keeps advancing and every taker keeps attempting Rescue
\* ------------------------------------------------------------------------
\* Rescue of one escrow, sent by that escrow's taker
RescueByTaker(escrow_id) ==
    /\ escrow_id \in DOMAIN escrows
    /\ execute_rescue(ImmutablesOf(escrow_id).taker, escrow_id)

TakerRescue == \E escrow_id \in EscrowIds : RescueByTaker(escrow_id)

NextLive ==
    \/ Tick
    \/ CreateEscrow
    \/ WithdrawSrc
    \/ CancelDst
    \/ TakerRescue

\* the block time of successive calls grows, and a taker who keeps sending
\* Rescue has it executed
SpecLive ==
    /\ Init
    /\ [][NextLive]_vars
    /\ WF_vars(Tick)
    /\ \A escrow_id \in EscrowIds : WF_vars(RescueByTaker(escrow_id))

\* the taker's Rescue of this escrow, sent now, would succeed
RescueEnabled(id) ==
    ENABLED (RescueByTaker(id) /\ last'.result = "Ok" /\ ~ escrows'[id].escrow_info.is_active)

\* C32: no Active escrow is stuck forever: for every created escrow of
\* either role, when time keeps advancing and the taker keeps attempting
\* Rescue, the escrow eventually becomes Inactive; and in every reachable
\* state with an Active escrow and now >= deployed_at + rescue_delay, Rescue
\* by the taker is enabled.
C32_NoEscrowStuckForever ==
    /\ \A id \in EscrowIds :
          (id \in DOMAIN escrows /\ IsActive(id))
              ~> (id \in DOMAIN escrows /\ ~ IsActive(id))
    /\ [](\A id \in DOMAIN escrows :
              (IsActive(id) /\ now >= RescueStartOf(id)) => RescueEnabled(id))

\* a destination escrow that no withdrawal or cancellation closed has been
\* closed by its taker's Rescue
C32_Witness ==
    /\ last.op = "Rescue"
    /\ last.result = "Ok"
    /\ last.escrow_id \in DOMAIN escrows
    /\ TypeOf(last.escrow_id) = "Destination"
    /\ last.sender = ImmutablesOf(last.escrow_id).taker
    /\ ~ IsActive(last.escrow_id)
    /\ now >= RescueStartOf(last.escrow_id)

====
